---- MODULE Spec2Model ----
(***************************************************************************)
(* Multi-token-type JWT authentication for Fastify: the signing and        *)
(* verification codec (src/lib/jwt/core.ts), the JWT service facade        *)
(* (FastifyJwtService) and the per-request verification hook               *)
(* (src/lib/jwt/hooks.ts).                                                 *)
(*                                                                         *)
(* Conventions.  A JavaScript `undefined` string is the value Undefined,   *)
(* an undefined number is NoNum, an undefined list is NoList, an undefined *)
(* header configuration is NoHeader.  A compact token is a record of its   *)
(* dot-separated segments: the number of segments, the decoded form of the *)
(* header segment, the decoded form of the payload segment, and the        *)
(* signature segment.  A signature segment is "" (empty), "bad" (matches   *)
(* no key) or the secret under which it is a valid MAC of exactly this     *)
(* header and payload.                                                     *)
(***************************************************************************)
EXTENDS Integers, Sequences, FiniteSets, TLC

VARIABLES
  secrets,            \* FastifyJwtService.secrets: key id -> secret
  defaultKeyId,       \* FastifyJwtService.defaultKeyId
  tokenTypes,         \* FastifyJwtService.tokenTypes: type name -> TokenTypeConfig
  debug,              \* FastifyJwtService.debug and HookOptions.debug
  requiredTypes,      \* HookOptions.requiredTypes
  swaggerRoutePrefix, \* HookOptions.swaggerRoutePrefix
  now,                \* Math.floor(Date.now() / 1000)
  token,              \* the compact token in the caller's hands
  issued,             \* the last successful generateToken call and what it returned
  call,               \* the last service call: its name and type name argument
  result,             \* what the last service call returned or threw
  req,                \* the request the verification hook is handling
  waiting,            \* the requests in flight whose handling is not running now
  plugin              \* the registration of a plugin made by createFastifyPlugin

svars == <<secrets, defaultKeyId, tokenTypes, debug>>

hvars == <<requiredTypes, swaggerRoutePrefix, req, waiting>>

vars == <<secrets, defaultKeyId, tokenTypes, debug, requiredTypes, swaggerRoutePrefix,
          now, token, issued, call, result, req, waiting, plugin>>

----------------------------------------------------------------------------
(* Bounds *)

MaxClock == 3

MaxHeaderFields == 2

MaxTypes == 2

MaxSpaces == 2

\* the requests the server handles at the same time
MaxRequests == 2

\* the calls of done a plugin callback makes before it returns, and after
MaxDoneCalls == 3

\* the length of the secrets strings handed to parseJwtSecrets
MaxSecretsLen == 7

----------------------------------------------------------------------------
(* JavaScript values *)

Undefined == "undefined"

NoNum == -1

NoList == <<"undefined">>

NoHeader == << <<"undefined", "undefined">> >>

\* a header claim whose configured value is an object literal
ObjValue == "{obj}"

Falsy(s) == s = Undefined \/ s = ""

\* a function value, such as the ones every object inherits from Object.prototype
FnValue == "{function}"

\* property names every object literal inherits
InheritedNames == {"toString"}

\* obj[key] for an object literal with the own properties of obj
GetProperty(obj, key) ==
  IF key \in DOMAIN obj THEN obj[key]
  ELSE IF key \in InheritedNames THEN FnValue
  ELSE Undefined

\* a === b for header claim values: two object references are never the same
\* object after a JSON round trip
StrictEquals(a, b) == a = b /\ a # ObjValue

SeqToSet(s) == {s[i] : i \in 1..Len(s)}

----------------------------------------------------------------------------
(* Domains *)

KeyIds == {"k1", "k2"}

SecretOf(k) == IF k = "k1" THEN "s1" ELSE "s2"

TypeNames == {"access", "service"}

HeaderKeys == {"alg", "typ", "kid", "cty", "env"}

HsAlgs == {"HS256", "HS384", "HS512"}

EmptyHdr == [k \in HeaderKeys |-> Undefined]

EmptyClaims == [uid |-> Undefined, iss |-> Undefined, aud |-> Undefined, iat |-> NoNum, exp |-> NoNum]

NoToken == [parts |-> 0, hform |-> "empty", h |-> EmptyHdr, pform |-> "empty", c |-> EmptyClaims, sig |-> ""]

Ok(p) == [ok |-> TRUE, kind |-> "none", msg |-> <<>>, payload |-> p, token |-> NoToken]

OkToken(t) == [ok |-> TRUE, kind |-> "none", msg |-> <<>>, payload |-> EmptyClaims, token |-> t]

Err(kind, msg) == [ok |-> FALSE, kind |-> kind, msg |-> msg, payload |-> EmptyClaims, token |-> NoToken]

\* the expiry a TokenExpiredError carries (expiredAt)
ExpiredAt(r) == r.payload.exp

NoResult == [ok |-> FALSE, kind |-> "idle", msg |-> <<>>, payload |-> EmptyClaims, token |-> NoToken]

----------------------------------------------------------------------------
(* Token type configuration: header claims *)

\* options.header as the ordered list of its own [key, value] entries
HeaderGet(hc, key) ==
  IF hc = NoHeader \/ ~(\E i \in 1..Len(hc) : hc[i][1] = key) THEN Undefined
  ELSE hc[CHOOSE i \in 1..Len(hc) : hc[i][1] = key][2]

\* Object.assign(target, source) over the entries of source, in order
RECURSIVE AssignEntries(_, _)
AssignEntries(target, entries) ==
  IF entries = <<>> THEN target
  ELSE AssignEntries([target EXCEPT ![entries[1][1]] = entries[1][2]], Tail(entries))

\* the entries of options.header other than typ and cty, in order
CustomEntries(hc) == SelectSeq(hc, LAMBDA e : e[1] # "typ" /\ e[1] # "cty")

\* headerConfig of signToken: typ, cty when defined, then the custom entries
HeaderConfigEntries(hc) ==
  (IF HeaderGet(hc, "typ") # Undefined THEN << <<"typ", HeaderGet(hc, "typ")>> >> ELSE <<>>)
  \o (IF HeaderGet(hc, "cty") # Undefined THEN << <<"cty", HeaderGet(hc, "cty")>> >> ELSE <<>>)
  \o CustomEntries(hc)

----------------------------------------------------------------------------
(* jsonwebtoken: sign and verify *)

\* timespan(expiresIn, timestamp): the exp claim of a token issued at timestamp
Timespan(expiresIn, timestamp) == timestamp + expiresIn

\* jwt.sign(payload, secret, {expiresIn, keyid, algorithm, issuer, audience, header})
\* at clock value clock.  The payload is copied, never mutated.
JwtSign(payload, secret, keyid, expiresIn, algorithm, issuer, audience, headerEntries, clock) ==
  LET timestamp == IF payload.iat # NoNum /\ payload.iat # 0 THEN payload.iat ELSE clock
      header == AssignEntries(
                  [EmptyHdr EXCEPT !["alg"] = IF algorithm # Undefined THEN algorithm ELSE "HS256",
                                   !["typ"] = "JWT",
                                   !["kid"] = keyid],
                  headerEntries)
      claims == [payload EXCEPT !.iat = timestamp,
                                !.exp = Timespan(expiresIn, timestamp),
                                !.iss = IF issuer # Undefined THEN issuer ELSE payload.iss,
                                !.aud = IF audience # Undefined THEN audience ELSE payload.aud]
  IN  IF secret = FnValue
        THEN Err("SignError", <<"secretOrPrivateKey is not valid key material">>)
      ELSE IF payload.exp # NoNum
        THEN Err("SignError", <<"Bad options.expiresIn option the payload already has an exp property.">>)
      ELSE IF issuer # Undefined /\ payload.iss # Undefined
        THEN Err("SignError", <<"Bad options.issuer option. The payload already has an iss property.">>)
      ELSE IF audience # Undefined /\ payload.aud # Undefined
        THEN Err("SignError", <<"Bad options.audience option. The payload already has an aud property.">>)
      ELSE IF header["alg"] \notin HsAlgs
        THEN Err("SignError", <<"algorithm must be a supported HMAC algorithm">>)
      ELSE OkToken([parts |-> 3, hform |-> "object", h |-> header,
                    pform |-> "object", c |-> claims, sig |-> secret])

\* a jwt.sign that writes the claims it adds into the caller's object
PayloadObjectMutated(payload, signed, mutatePayload) ==
  IF signed.ok THEN signed.token.c ELSE payload

\* the caller's payload object after jwt.sign returned signed: sign works on
\* Object.assign({}, payload) unless options.mutatePayload is set
PayloadObjectAfter(payload, signed, mutatePayload) ==
  IF mutatePayload /\ signed.ok THEN signed.token.c ELSE payload

\* an expiry check that still accepts the token in the second it expires
IsExpiredAfter(clock, exp) == exp # NoNum /\ clock > exp

\* the expiry check of jwt.verify: clockTimestamp >= payload.exp
IsExpired(clock, exp) == exp # NoNum /\ clock >= exp

\* jwt.verify(token, secret, {complete: false}) at clock value clock
JwtVerify(tok, secret, clock) ==
  IF tok.parts # 3 THEN Err("JsonWebTokenError", <<"jwt malformed">>)
  ELSE IF tok.hform # "object" \/ tok.pform # "object" THEN Err("JsonWebTokenError", <<"invalid token">>)
  ELSE IF secret = FnValue
    THEN Err("JsonWebTokenError", <<"verify must be called asynchronous if secret or public key is provided as a callback">>)
  ELSE IF tok.sig = "" THEN Err("JsonWebTokenError", <<"jwt signature is required">>)
  ELSE IF tok.h["alg"] \notin HsAlgs THEN Err("JsonWebTokenError", <<"invalid algorithm">>)
  ELSE IF tok.sig # secret THEN Err("JsonWebTokenError", <<"invalid signature">>)
  ELSE IF IsExpired(clock, tok.c.exp)
    THEN [Err("TokenExpiredError", <<"jwt expired">>) EXCEPT !.payload = [EmptyClaims EXCEPT !.exp = tok.c.exp]]
  ELSE Ok(tok.c)

----------------------------------------------------------------------------
(* src/lib/jwt/core.ts *)

\* signToken(payload, secret, kid, expiresIn, options)
signToken(payload, secret, kid, expiresIn, options, clock) ==
  JwtSign(payload, secret, kid, expiresIn,
          IF Falsy(options.algorithm) THEN Undefined ELSE options.algorithm,
          IF Falsy(options.iss) THEN Undefined ELSE options.iss,
          IF Falsy(options.aud) THEN Undefined ELSE options.aud,
          IF options.header = NoHeader THEN <<>> ELSE HeaderConfigEntries(options.header),
          clock)

\* the first custom entry of expectedHeader whose defined value the header lacks
RECURSIVE FirstCustomMismatch(_, _)
FirstCustomMismatch(header, entries) ==
  IF entries = <<>> THEN Undefined
  ELSE IF entries[1][2] # Undefined /\ ~StrictEquals(header[entries[1][1]], entries[1][2])
    THEN entries[1][1]
  ELSE FirstCustomMismatch(header, Tail(entries))

\* a header-claim validation that looks at typ and cty only
HeaderMismatchStandardOnly(header, expectedHeader) ==
  IF expectedHeader = NoHeader THEN Undefined
  ELSE IF HeaderGet(expectedHeader, "typ") # Undefined
          /\ ~StrictEquals(header["typ"], HeaderGet(expectedHeader, "typ")) THEN "typ"
  ELSE IF HeaderGet(expectedHeader, "cty") # Undefined
          /\ ~StrictEquals(header["cty"], HeaderGet(expectedHeader, "cty")) THEN "cty"
  ELSE Undefined

\* the field of the header-claim validation that throws, Undefined when none does
HeaderMismatchField(header, expectedHeader) ==
  IF expectedHeader = NoHeader THEN Undefined
  ELSE IF HeaderGet(expectedHeader, "typ") # Undefined
          /\ ~StrictEquals(header["typ"], HeaderGet(expectedHeader, "typ")) THEN "typ"
  ELSE IF HeaderGet(expectedHeader, "cty") # Undefined
          /\ ~StrictEquals(header["cty"], HeaderGet(expectedHeader, "cty")) THEN "cty"
  ELSE FirstCustomMismatch(header, CustomEntries(expectedHeader))

KeyOrder == <<"k1", "k2">>

\* Object.keys(secrets).join(', ')
JoinKeys(store) == SelectSeq(KeyOrder, LAMBDA k : k \in DOMAIN store)

\* a catch block that in diagnostics mode reports a bad signature as an error
\* of its own kind
CatchJwtErrorSplit(r, dbg, clock) ==
  IF r.kind = "TokenExpiredError"
    THEN Err("TokenExpired", IF dbg THEN <<"Token expired">> ELSE <<"Token has expired">>)
  ELSE IF r.kind = "JsonWebTokenError"
    THEN IF dbg /\ r.msg[1] = "invalid signature"
           THEN Err("InvalidSignature", <<"Invalid token signature">>)
         ELSE Err("InvalidToken", <<"Invalid token">>)
  ELSE r

\* the catch block of verifyToken: the jsonwebtoken error classes are rewritten
CatchJwtError(r, dbg, clock) ==
  IF r.kind = "TokenExpiredError"
    THEN Err("TokenExpired",
             IF dbg THEN <<"Token expired at", ToString(ExpiredAt(r)), ToString(clock - ExpiredAt(r)), "seconds ago">>
             ELSE <<"Token has expired">>)
  ELSE IF r.kind = "JsonWebTokenError"
    THEN Err("InvalidToken",
             IF dbg
               THEN IF r.msg[1] = "invalid signature" \/ r.msg[1] = "jwt signature is required"
                      THEN <<"Invalid token signature: Token was signed with a different secret or has been tampered with">>
                    ELSE IF r.msg[1] = "jwt malformed"
                      THEN <<"Malformed token: Token structure is invalid or corrupted">>
                    ELSE <<"Token verification failed:", r.msg[1]>>
             ELSE <<"Invalid token">>)
  ELSE r

\* an issuer validation that only asks for some issuer to be present
CheckIssuerPresent(decoded, allowedIss, dbg) ==
  IF allowedIss # NoList /\ Len(allowedIss) > 0 /\ Falsy(decoded.iss)
    THEN Err("MissingIssuer",
             IF dbg THEN <<"Token missing issuer (iss) claim. Expected one of:">> \o allowedIss
             ELSE <<"Token missing issuer claim">>)
  ELSE Ok(decoded)

\* the issuer validation of verifyToken on the decoded payload
CheckIssuer(decoded, allowedIss, dbg) ==
  IF allowedIss # NoList /\ Len(allowedIss) > 0
    THEN IF Falsy(decoded.iss)
           THEN Err("MissingIssuer",
                    IF dbg THEN <<"Token missing issuer (iss) claim. Expected one of:">> \o allowedIss
                    ELSE <<"Token missing issuer claim">>)
         ELSE IF decoded.iss \notin SeqToSet(allowedIss)
           THEN Err("IssuerNotAllowed",
                    IF dbg THEN <<"Invalid token issuer", decoded.iss, "Expected one of:">> \o allowedIss
                    ELSE <<"Invalid token issuer", decoded.iss>>)
         ELSE Ok(decoded)
  ELSE Ok(decoded)

\* a lookup that ignores the token's kid and takes the default key's secret
LookupDefaultSecret(store, kid) ==
  IF defaultKeyId \in DOMAIN store THEN store[defaultKeyId] ELSE Undefined

\* secrets[kid]
LookupSecret(store, kid) == GetProperty(store, kid)

\* verifyToken(token, secrets, options) at clock value clock
verifyToken(tok, store, options, clock) ==
  LET dbg == options.debug
      kid == tok.h["kid"]
      field == HeaderMismatchField(tok.h, options.expectedHeader)
  IN  IF tok.parts # 3 \/ tok.hform = "empty"
        THEN Err("MalformedToken",
                 IF dbg THEN <<"Malformed JWT token: Token must have 3 parts separated by dots">>
                 ELSE <<"Malformed token">>)
      ELSE IF tok.hform = "garbage"
        THEN Err("MalformedToken",
                 IF dbg THEN <<"Malformed JWT token: Invalid base64 encoding in header">>
                 ELSE <<"Malformed token">>)
      ELSE IF tok.hform = "null"
        THEN Err("TypeError", <<"Cannot read properties of null (reading 'kid')">>)
      ELSE IF Falsy(kid)
        THEN Err("MissingKeyId",
                 IF dbg THEN <<"Missing kid in JWT token header. Ensure the token was signed with a kid parameter.">>
                 ELSE <<"Missing kid in token header">>)
      ELSE IF field # Undefined
        THEN Err("HeaderMismatch",
                 IF dbg THEN <<"Invalid JWT header", field, "expected", HeaderGet(options.expectedHeader, field),
                               "got", IF Falsy(tok.h[field]) THEN Undefined ELSE tok.h[field]>>
                 ELSE <<"Invalid JWT header", field>>)
      ELSE IF Falsy(LookupSecret(store, kid))
        THEN Err("UnknownKeyId",
                 IF dbg THEN <<"Unknown key ID", kid, "in JWT token. Available keys:">> \o JoinKeys(store)
                 ELSE <<"Unknown key ID", kid>>)
      ELSE LET r == JwtVerify(tok, LookupSecret(store, kid), clock)
           IN  IF ~r.ok THEN CatchJwtError(r, dbg, clock)
               ELSE CheckIssuer(r.payload, options.allowedIss, dbg)

\* the header value is the empty string
EmptyText(headerValue) ==
  /\ headerValue.scheme = "" /\ headerValue.ws = 0
  /\ headerValue.tok = NoToken /\ headerValue.rest = ""

\* an extraction that accepts the scheme in the spelling "Bearer" only
extractTokenCaseSensitive(headerValue, headerName, dbg) ==
  IF ~headerValue.present \/ EmptyText(headerValue) THEN Ok(EmptyClaims)
  ELSE IF headerValue.scheme = "Bearer" /\ headerValue.ws > 0
          /\ headerValue.tok # NoToken /\ headerValue.rest = ""
    THEN OkToken(headerValue.tok)
  ELSE IF dbg THEN Err("BadHeaderFormat", <<"Invalid", headerName, "header format. Expected: Bearer <token>">>)
  ELSE Ok(EmptyClaims)

\* extractTokenFromHeader(headerValue, headerName, debug).  A header value is
\* [present, scheme, ws, tok, rest]: the text before the first whitespace run,
\* the number of whitespace characters after it, the token text that follows
\* and whatever text follows the token after further whitespace; a value
\* without whitespace has scheme "" and carries the token alone.  An array
\* value acts through its first element.
extractTokenFromHeader(headerValue, headerName, dbg) ==
  IF ~headerValue.present \/ EmptyText(headerValue) THEN Ok(EmptyClaims)
  ELSE IF headerValue.scheme \in {"Bearer", "bearer", "BEARER", "bEaReR"} /\ headerValue.ws > 0
          /\ headerValue.tok # NoToken /\ headerValue.rest = ""
    THEN OkToken(headerValue.tok)
  ELSE IF dbg THEN Err("BadHeaderFormat", <<"Invalid", headerName, "header format. Expected: Bearer <token>">>)
  ELSE Ok(EmptyClaims)

----------------------------------------------------------------------------
(* FastifyJwtService *)

\* payloadSchema.parse(decoded) for the zod object schemas z.object({uid: z.string()})
\* in its three unknown-key modes: strip (the default), passthrough and strict
SchemaParse(schema, decoded) ==
  IF decoded.uid = Undefined THEN Err("ZodError", <<"uid: Required">>)
  ELSE IF schema = "strict" /\ decoded # [EmptyClaims EXCEPT !.uid = decoded.uid]
    THEN Err("ZodError", <<"Unrecognized key(s) in object">>)
  ELSE IF schema = "passthrough" THEN Ok(decoded)
  ELSE Ok([EmptyClaims EXCEPT !.uid = decoded.uid])

\* the error of the service for an unregistered type, the service having been
\* constructed with debug = dbg
UnknownTokenTypeIn(typeName, dbg) ==
  Err("UnknownTokenType",
      IF dbg THEN <<"Unknown token type", typeName, "Available types:">>
                    \o SelectSeq(<<"access", "service">>, LAMBDA t : t \in DOMAIN tokenTypes)
      ELSE <<"Unknown token type", typeName>>)

UnknownTokenType(typeName) == UnknownTokenTypeIn(typeName, debug)

\* FastifyJwtService.generateToken(typeName, payload)
generateToken(typeName, payload) ==
  IF typeName \notin DOMAIN tokenTypes THEN UnknownTokenType(typeName)
  ELSE IF Falsy(GetProperty(secrets, defaultKeyId))
    THEN Err("MissingDefaultSecret", <<"Default key ID", defaultKeyId, "not found in secrets">>)
  ELSE LET tokenType == tokenTypes[typeName]
       IN  signToken(payload, GetProperty(secrets, defaultKeyId), defaultKeyId, tokenType.expiresIn,
                     [algorithm |-> tokenType.algorithm, iss |-> tokenType.iss,
                      aud |-> tokenType.aud, header |-> tokenType.header],
                     now)

\* the caller's payload object after generateToken(typeName, payload): the
\* sign options built by signToken carry no mutatePayload
PayloadAfterGenerate(typeName, payload) ==
  PayloadObjectAfter(payload, generateToken(typeName, payload), FALSE)

\* FastifyJwtService.getTokenTypeConfig(typeName)
getTokenTypeConfig(typeName) == GetProperty(tokenTypes, typeName)

\* FastifyJwtService.getTokenTypeNames()
getTokenTypeNames == SelectSeq(<<"access", "service">>, LAMBDA t : t \in DOMAIN tokenTypes)

\* a verifyToken that validates the payload of the token before the codec runs
ServiceVerifySchemaFirst(typeName, tok, clock, dbg) ==
  IF typeName \notin DOMAIN tokenTypes THEN UnknownTokenTypeIn(typeName, dbg)
  ELSE LET tokenType == tokenTypes[typeName]
           parsed == SchemaParse(tokenType.payloadSchema, tok.c)
       IN  IF tokenType.payloadSchema # Undefined /\ ~parsed.ok
             THEN Err("InvalidPayloadShape",
                      IF dbg THEN <<"Token payload validation failed:">> \o parsed.msg
                      ELSE <<"Invalid token payload">>)
           ELSE verifyToken(tok, secrets,
                            [debug |-> dbg,
                             allowedIss |-> IF tokenType.allowedIss # NoList /\ Len(tokenType.allowedIss) > 0
                                              THEN tokenType.allowedIss ELSE NoList,
                             expectedHeader |-> tokenType.header],
                            clock)

\* FastifyJwtService.verifyToken once the type is found: the codec's
\* verifyToken with the type's allowedIss and header, then the payload schema
VerifyWithConfig(tokenType, tok, clock, dbg) ==
  LET decoded == verifyToken(tok, secrets,
                   [debug |-> dbg,
                    allowedIss |-> IF tokenType.allowedIss # NoList /\ Len(tokenType.allowedIss) > 0
                                     THEN tokenType.allowedIss ELSE NoList,
                    expectedHeader |-> tokenType.header],
                   clock)
  IN  IF ~decoded.ok THEN decoded
      ELSE IF tokenType.payloadSchema = Undefined THEN decoded
      ELSE LET parsed == SchemaParse(tokenType.payloadSchema, decoded.payload)
           IN  IF parsed.ok THEN parsed
               ELSE Err("InvalidPayloadShape",
                        IF dbg THEN <<"Token payload validation failed:">> \o parsed.msg
                        ELSE <<"Invalid token payload">>)

\* a verifyToken that also asks jsonwebtoken for the type's algorithm and audience
ServiceVerifyBound(typeName, tok, clock, dbg) ==
  IF typeName \notin DOMAIN tokenTypes THEN UnknownTokenTypeIn(typeName, dbg)
  ELSE LET tokenType == tokenTypes[typeName]
       IN  IF ~Falsy(tokenType.algorithm) /\ tok.h["alg"] # tokenType.algorithm
             THEN Err("InvalidToken", <<"Invalid token">>)
           ELSE IF ~Falsy(tokenType.aud) /\ tok.c.aud # tokenType.aud
             THEN Err("InvalidToken", <<"Invalid token">>)
           ELSE VerifyWithConfig(tokenType, tok, clock, dbg)

\* FastifyJwtService.verifyToken(typeName, token) at clock value clock, the
\* service having been constructed with debug = dbg
ServiceVerifyTokenIn(typeName, tok, clock, dbg) ==
  IF typeName \notin DOMAIN tokenTypes THEN UnknownTokenTypeIn(typeName, dbg)
  ELSE VerifyWithConfig(tokenTypes[typeName], tok, clock, dbg)

ServiceVerifyTokenAt(typeName, tok, clock) == ServiceVerifyTokenIn(typeName, tok, clock, debug)

ServiceVerifyToken(typeName, tok) == ServiceVerifyTokenAt(typeName, tok, now)

\* FastifyJwtService.extractTokenFromHeader(headerValue, typeName), the service
\* having been constructed with debug = dbg
ServiceExtractTokenIn(headerValue, typeName, dbg) ==
  IF typeName \notin DOMAIN tokenTypes THEN UnknownTokenTypeIn(typeName, dbg)
  ELSE extractTokenFromHeader(headerValue, tokenTypes[typeName].headerName, dbg)

ServiceExtractToken(headerValue, typeName) == ServiceExtractTokenIn(headerValue, typeName, debug)

----------------------------------------------------------------------------
(* src/lib/jwt/register.ts *)

\* Object.entries(tokenTypes): the registered names in the order they were written
TypeOrder(registry) == SelectSeq(<<"access", "service">>, LAMBDA t : t \in DOMAIN registry)

\* the error of the validation loop for the first type that lacks a field,
\* Undefined when every type has headerName and expiresIn
RECURSIVE MissingField(_, _)
MissingField(registry, names) ==
  IF names = <<>> THEN <<>>
  ELSE IF Falsy(registry[names[1]].headerName)
    THEN <<"Token type", names[1], "is missing required field: headerName">>
  ELSE IF registry[names[1]].expiresIn = NoNum
    THEN <<"Token type", names[1], "is missing required field: expiresIn">>
  ELSE MissingField(registry, Tail(names))

\* registerJWT(fastify, options): the validation before the service is created
registerJWT(options) ==
  IF Falsy(GetProperty(options.secrets, options.defaultKeyId))
    THEN Err("ConfigurationError", <<"Default key ID", options.defaultKeyId, "not found in JWT secrets">>)
  ELSE IF DOMAIN options.tokenTypes = {}
    THEN Err("ConfigurationError", <<"At least one token type must be configured">>)
  ELSE IF MissingField(options.tokenTypes, TypeOrder(options.tokenTypes)) # <<>>
    THEN Err("ConfigurationError", MissingField(options.tokenTypes, TypeOrder(options.tokenTypes)))
  ELSE Ok(EmptyClaims)

----------------------------------------------------------------------------
(* parseJwtSecrets.  A string is the sequence of its characters. *)

\* String.prototype.trim
RECURSIVE TrimStart(_)
TrimStart(str) == IF str # <<>> /\ str[1] = " " THEN TrimStart(Tail(str)) ELSE str

RECURSIVE TrimEnd(_)
TrimEnd(str) ==
  IF str # <<>> /\ str[Len(str)] = " " THEN TrimEnd(SubSeq(str, 1, Len(str) - 1)) ELSE str

Trim(str) == TrimEnd(TrimStart(str))

\* String.prototype.indexOf, counting positions from 1: 0 when ch does not occur
IndexOf(str, ch) ==
  IF \E i \in 1..Len(str) : str[i] = ch
    THEN CHOOSE i \in 1..Len(str) : str[i] = ch /\ \A j \in 1..(i - 1) : str[j] # ch
  ELSE 0

\* String.prototype.split
RECURSIVE Split(_, _)
Split(str, sep) ==
  LET i == IndexOf(str, sep)
  IN  IF i = 0 THEN <<str>>
      ELSE <<SubSeq(str, 1, i - 1)>> \o Split(SubSeq(str, i + 1, Len(str)), sep)

\* a separator search that takes the last '=' of the pair
SeparatorLastIndex(trimmedPair) ==
  IF \E i \in 1..Len(trimmedPair) : trimmedPair[i] = "="
    THEN CHOOSE i \in 1..Len(trimmedPair) :
           trimmedPair[i] = "=" /\ \A j \in (i + 1)..Len(trimmedPair) : trimmedPair[j] # "="
  ELSE 0

\* trimmedPair.indexOf('=')
SeparatorIndex(trimmedPair) == IndexOf(trimmedPair, "=")

\* the secrets object with secrets[keyId] = secret
WithSecret(acc, keyId, secret) ==
  [k \in DOMAIN acc \cup {keyId} |-> IF k = keyId THEN secret ELSE acc[k]]

\* the loop over the pairs, acc being the secrets collected so far, and the
\* check after it
RECURSIVE ParsePairs(_, _)
ParsePairs(pairs, acc) ==
  IF pairs = <<>>
    THEN IF DOMAIN acc = {}
           THEN Err("NoValidPair", <<"JWT secrets string must contain at least one valid key=secret pair">>)
         ELSE [ok |-> TRUE, kind |-> "none", msg |-> <<>>, payload |-> EmptyClaims,
               token |-> NoToken, value |-> acc]
  ELSE LET pair == pairs[1]
           trimmedPair == Trim(pair)
           separatorIndex == SeparatorIndex(trimmedPair)
           keyId == Trim(SubSeq(trimmedPair, 1, separatorIndex - 1))
           secret == Trim(SubSeq(trimmedPair, separatorIndex + 1, Len(trimmedPair)))
       IN  IF trimmedPair = <<>> THEN ParsePairs(Tail(pairs), acc)
           ELSE IF separatorIndex = 0
             THEN Err("InvalidSecretFormat", <<"Invalid JWT secret format:", pair, "Expected format: key=secret">>)
           ELSE IF keyId = <<>>
             THEN Err("EmptyKeyId", <<"Empty key ID in JWT secret pair:", pair>>)
           ELSE IF secret = <<>>
             THEN Err("EmptySecret", <<"Empty secret for key ID", keyId>>)
           ELSE IF keyId \in DOMAIN acc   \* secrets[keyId] is truthy: the secrets stored are not empty
             THEN Err("DuplicateKeyId", <<"Duplicate key ID", keyId, "in JWT secrets">>)
           ELSE ParsePairs(Tail(pairs), WithSecret(acc, keyId, secret))

\* parseJwtSecrets(secretsString)
parseJwtSecrets(secretsString) ==
  IF secretsString = <<>> \/ Trim(secretsString) = <<>>
    THEN Err("EmptySecrets", <<"JWT secrets string cannot be empty">>)
  ELSE ParsePairs(Split(secretsString, "|"), [k \in {} |-> <<>>])

----------------------------------------------------------------------------
(* Configurations and inputs *)

HeaderEntryChoices ==
  { <<"typ", "at">>, <<"cty", "json">>, <<"env", "prod">>, <<"env", "staging">>,
    <<"env", ObjValue>>, <<"env", Undefined>>, <<"kid", "k2">> }

RECURSIVE HeaderSeqs(_)
HeaderSeqs(n) ==
  IF n = 0 THEN { <<>> }
  ELSE LET shorter == HeaderSeqs(n - 1)
       IN  shorter \cup
           { Append(hc, e) : hc \in {x \in shorter : Len(x) = n - 1},
                             e \in HeaderEntryChoices }

DistinctKeys(hc) == \A i, j \in 1..Len(hc) : i # j => hc[i][1] # hc[j][1]

\* TokenTypeConfig.header: undefined, or an object of at most MaxHeaderFields claims
HeaderConfigs == {NoHeader} \cup {hc \in HeaderSeqs(MaxHeaderFields) : DistinctKeys(hc)}

TypeConfig(hdr, exp, schema, alg, iss, aud, allowed) ==
  [headerName |-> "authorization", expiresIn |-> exp, payloadSchema |-> schema,
   algorithm |-> alg, iss |-> iss, aud |-> aud, allowedIss |-> allowed, header |-> hdr]

FullStore == [k \in KeyIds |-> SecretOf(k)]

NoIssued == [typeName |-> Undefined, payload |-> EmptyClaims, at |-> NoNum,
             defaultKeyId |-> Undefined, token |-> NoToken]

NoHeaderValue == [present |-> FALSE, scheme |-> "", ws |-> 0, tok |-> NoToken, rest |-> ""]

\* no secrets and no token types: the fields of a service that was never constructed
NoSecrets == [k \in {} |-> ""]

NoTypes == [t \in {} |-> TypeConfig(NoHeader, NoNum, Undefined, Undefined, Undefined, Undefined, NoList)]

NoOptions == [secrets |-> NoSecrets, defaultKeyId |-> Undefined, tokenTypes |-> NoTypes, debug |-> FALSE]

NoCall == [op |-> "none", typeName |-> Undefined, headerValue |-> NoHeaderValue, options |-> NoOptions,
              payload |-> EmptyClaims, payloadAfter |-> EmptyClaims]

HeaderNames == {"authorization", "x-service-authorization"}

NoReply == [status |-> 0, error |-> "", message |-> <<>>, typeName |-> Undefined]

\* routeOptions.config.jwtTypes: undefined, false or an array of type names
NoJwtTypes == [is |-> "undefined", list |-> <<>>]

\* no request has reached the onRequest hook yet
IdleReq ==
  [pc |-> "idle", url |-> <<>>, jwtTypes |-> NoJwtTypes,
   headers |-> [h \in HeaderNames |-> NoHeaderValue],
   typesToVerify |-> <<>>, i |-> 0,
   hasPayloads |-> FALSE, jwtPayloads |-> [t \in {} |-> EmptyClaims],
   reply |-> NoReply, replies |-> 0, reads |-> <<>>, verified |-> <<>>]

\* the payloads callers hand to generateToken
Payloads ==
  { [EmptyClaims EXCEPT !.uid = u, !.iss = i, !.iat = a] :
      u \in {Undefined, "u1"}, i \in {Undefined, "svc-b"}, a \in {NoNum, 1} }
  \cup { [EmptyClaims EXCEPT !.uid = "u1", !.exp = 1] }

----------------------------------------------------------------------------
(* Service operations as actions *)

\* a caller generates a token of type t from payload p
Generate(t, p) ==
  /\ token = NoToken
  /\ LET r == generateToken(t, p)
     IN  /\ result' = r
         /\ token' = IF r.ok THEN r.token ELSE token
         /\ issued' = IF r.ok
                        THEN [typeName |-> t, payload |-> p, at |-> now,
                              defaultKeyId |-> defaultKeyId, token |-> r.token]
                      ELSE issued
  /\ call' = [op |-> "generateToken", typeName |-> t, headerValue |-> NoHeaderValue, options |-> NoOptions,
              payload |-> p, payloadAfter |-> PayloadAfterGenerate(t, p)]
  /\ UNCHANGED <<plugin, svars, hvars, now>>

\* a client presents a token it obtained elsewhere
Present(tok) ==
  /\ token = NoToken
  /\ token' = tok
  /\ call' = [op |-> "present", typeName |-> Undefined, headerValue |-> NoHeaderValue, options |-> NoOptions,
              payload |-> EmptyClaims, payloadAfter |-> EmptyClaims]
  /\ result' = NoResult
  /\ UNCHANGED <<plugin, svars, hvars, now, issued>>

\* a caller verifies the token in hand as type t
Verify(t) ==
  /\ token # NoToken
  /\ call.op # "verifyToken"
  /\ result' = ServiceVerifyToken(t, token)
  /\ call' = [op |-> "verifyToken", typeName |-> t, headerValue |-> NoHeaderValue, options |-> NoOptions,
              payload |-> EmptyClaims, payloadAfter |-> EmptyClaims]
  /\ UNCHANGED <<plugin, svars, hvars, now, token, issued>>

\* the application calls registerJWT(fastify, options): on success the service
\* is constructed from the options and decorates the Fastify instance
Register(options) ==
  /\ call.op = "none"
  /\ LET r == registerJWT(options)
     IN  /\ result' = r
         /\ IF r.ok
              THEN /\ secrets' = options.secrets
                   /\ defaultKeyId' = options.defaultKeyId
                   /\ tokenTypes' = options.tokenTypes
                   /\ debug' = options.debug
            ELSE UNCHANGED svars
  /\ call' = [op |-> "registerJWT", typeName |-> Undefined, headerValue |-> NoHeaderValue,
              options |-> options, payload |-> EmptyClaims, payloadAfter |-> EmptyClaims]
  /\ UNCHANGED <<plugin, hvars, now, token, issued>>

\* a caller extracts the token of type t from header value hv
Extract(t, hv) ==
  /\ result' = ServiceExtractToken(hv, t)
  /\ call' = [op |-> "extractTokenFromHeader", typeName |-> t, headerValue |-> hv, options |-> NoOptions,
              payload |-> EmptyClaims, payloadAfter |-> EmptyClaims]
  /\ UNCHANGED <<plugin, svars, hvars, now, token, issued>>

\* a caller reads the configuration of type t
GetTokenTypeConfig(t) ==
  /\ result' = [ok |-> TRUE, kind |-> "none", msg |-> <<>>, payload |-> EmptyClaims,
                token |-> NoToken, value |-> getTokenTypeConfig(t)]
  /\ call' = [NoCall EXCEPT !.op = "getTokenTypeConfig", !.typeName = t]
  /\ UNCHANGED <<plugin, svars, hvars, now, token, issued>>

\* a caller reads the names of the registered types
GetTokenTypeNames ==
  /\ result' = [ok |-> TRUE, kind |-> "none", msg |-> <<>>, payload |-> EmptyClaims,
                token |-> NoToken, value |-> getTokenTypeNames]
  /\ call' = [NoCall EXCEPT !.op = "getTokenTypeNames"]
  /\ UNCHANGED <<plugin, svars, hvars, now, token, issued>>

\* the application parses the secrets string it read from its environment
ParseSecrets ==
  /\ call.op = "read"
  /\ result' = parseJwtSecrets(call.text)
  /\ call' = [call EXCEPT !.op = "parseJwtSecrets"]
  /\ UNCHANGED <<plugin, svars, hvars, now, token, issued>>

\* the clock advances by one second
Tick ==
  /\ now < MaxClock
  /\ now' = now + 1
  /\ call' = NoCall
  /\ result' = NoResult
  /\ UNCHANGED <<plugin, svars, hvars, token, issued>>

\* the service is constructed anew with another default key id
SetDefaultKeyId(k) ==
  /\ k # defaultKeyId
  /\ defaultKeyId' = k
  /\ call' = NoCall
  /\ result' = NoResult
  /\ UNCHANGED <<plugin, secrets, tokenTypes, debug, hvars, now, token, issued>>

\* the service is constructed anew with key id k dropped from the secrets
RemoveKey(k) ==
  /\ k \in DOMAIN secrets
  /\ secrets' = [x \in DOMAIN secrets \ {k} |-> secrets[x]]
  /\ call' = NoCall
  /\ result' = NoResult
  /\ UNCHANGED <<plugin, defaultKeyId, tokenTypes, debug, hvars, now, token, issued>>

----------------------------------------------------------------------------
(* src/lib/jwt/hooks.ts: createVerificationHook *)

\* String.prototype.toLowerCase on the configured header names
ToLowerCase(name) ==
  IF name = "Authorization" THEN "authorization"
  ELSE IF name = "X-Service-Authorization" THEN "x-service-authorization"
  ELSE name

\* request.url.startsWith(prefix), a url being the list of its path pieces
StartsWith(url, prefix) ==
  Len(prefix) <= Len(url) /\ SubSeq(url, 1, Len(prefix)) = prefix

\* [...new Set(list)]: each element once, in order of first occurrence
RECURSIVE SetOrder(_)
SetOrder(list) ==
  IF list = <<>> THEN <<>>
  ELSE LET front == SetOrder(SubSeq(list, 1, Len(list) - 1))
           last == list[Len(list)]
       IN  IF last \in SeqToSet(front) THEN front ELSE Append(front, last)

\* a resolution that falls back to the access type when no type is named
ResolveTypesDefaultAccess(required, jwtTypes) ==
  LET base == IF required # NoList /\ Len(required) > 0 THEN required ELSE <<>>
      types == IF jwtTypes.is = "array" /\ Len(jwtTypes.list) > 0
                 THEN SetOrder(base \o jwtTypes.list)
               ELSE base
  IN  IF types = <<>> THEN <<"access">> ELSE types

\* a resolution that puts the route's types before the mandatory ones
ResolveTypesRouteFirst(required, jwtTypes) ==
  LET base == IF required # NoList /\ Len(required) > 0 THEN required ELSE <<>>
  IN  IF jwtTypes.is = "array" /\ Len(jwtTypes.list) > 0
        THEN SetOrder(jwtTypes.list \o base)
      ELSE base

\* typesToVerify as the hook computes it from requiredTypes and the route's jwtTypes
ResolveTypes(required, jwtTypes) ==
  LET base == IF required # NoList /\ Len(required) > 0 THEN required ELSE <<>>
  IN  IF jwtTypes.is = "array" /\ Len(jwtTypes.list) > 0
        THEN SetOrder(base \o jwtTypes.list)
      ELSE base

\* a rejection that answers every failure as an authentication failure
RejectAs401(r, status, error, message, typeName) ==
  [r EXCEPT !.pc = "replied",
            !.reply = [status |-> 401, error |-> "Unauthorized", message |-> message,
                       typeName |-> typeName],
            !.replies = r.replies + 1]

\* a rejection that sends the reply and goes on with the next type
RejectAndContinue(r, status, error, message, typeName) ==
  [r EXCEPT !.pc = IF r.i = Len(r.typesToVerify) THEN "replied" ELSE "loop",
            !.i = IF r.i = Len(r.typesToVerify) THEN r.i ELSE r.i + 1,
            !.reply = [status |-> status, error |-> error, message |-> message,
                       typeName |-> typeName],
            !.replies = r.replies + 1]

\* formatError(status, error, message) handed to reply.status(status).send
Reject(r, status, error, message, typeName) ==
  [r EXCEPT !.pc = "replied",
            !.reply = [status |-> status, error |-> error, message |-> message,
                       typeName |-> typeName],
            !.replies = r.replies + 1]

\* a request reaches the onRequest hook
Arrive(url, jwtTypes, headers) ==
  /\ req.pc = "idle"
  /\ req' = [IdleReq EXCEPT !.pc = "hook", !.url = url, !.jwtTypes = jwtTypes,
                            !.headers = headers]
  /\ UNCHANGED <<plugin, svars, requiredTypes, swaggerRoutePrefix, waiting, now, token, issued, call, result>>

\* the hook up to the loop: the Swagger skip, the jwtTypes: false skip, the
\* resolution of the types to verify and the creation of request.jwtPayloads
HookEntry(r) ==
  IF swaggerRoutePrefix # <<>> /\ StartsWith(r.url, swaggerRoutePrefix)
    THEN [r EXCEPT !.pc = "proceed"]
  ELSE IF r.jwtTypes.is = "false"
    THEN [r EXCEPT !.pc = "proceed"]
  ELSE LET types == ResolveTypes(requiredTypes, r.jwtTypes)
       IN  IF Len(types) = 0
             THEN [r EXCEPT !.pc = "proceed"]
           ELSE [r EXCEPT !.pc = "loop", !.typesToVerify = types, !.i = 1,
                          !.hasPayloads = TRUE]

HookStart ==
  /\ req.pc = "hook"
  /\ req' = HookEntry(req)
  /\ UNCHANGED <<plugin, svars, requiredTypes, swaggerRoutePrefix, waiting, now, token, issued, call, result>>

\* the request after the loop body has run for type name typeName, hook and
\* service having been set up with debug = dbg
LoopBodyIn(r, typeName, dbg) ==
  IF typeName \notin DOMAIN tokenTypes
    THEN Reject(r, 500, "Internal Server Error",
                IF dbg THEN <<"Unknown token type", typeName, "in route configuration. Available types:">>
                              \o SelectSeq(<<"access", "service">>, LAMBDA t : t \in DOMAIN tokenTypes)
                ELSE <<"Unknown token type", typeName>>,
                typeName)
  ELSE LET headerName == ToLowerCase(tokenTypes[typeName].headerName)
           headerValue == IF headerName \in HeaderNames THEN r.headers[headerName] ELSE NoHeaderValue
           extracted == ServiceExtractTokenIn(headerValue, typeName, dbg)
           read == [r EXCEPT !.reads = Append(r.reads, headerName)]
       IN  IF ~extracted.ok
             THEN Reject(read, 401, "Unauthorized",
                         IF dbg THEN extracted.msg ELSE <<"Invalid", headerName, "header format">>,
                         typeName)
           ELSE IF extracted.token = NoToken
             THEN Reject(read, 401, "Unauthorized",
                         IF dbg THEN <<"Missing or invalid", headerName, "header for token type", typeName>>
                         ELSE <<"Missing or invalid", headerName, "header">>,
                         typeName)
           ELSE LET payload == ServiceVerifyTokenIn(typeName, extracted.token, now, dbg)
                    called == [read EXCEPT !.verified = Append(read.verified, typeName)]
                IN  IF ~payload.ok
                      THEN Reject(called, 401, "Unauthorized",
                                  IF dbg THEN <<"Token verification failed for type", typeName>> \o payload.msg
                                  ELSE <<"Invalid or expired", typeName, "token">>,
                                  typeName)
                    ELSE [called EXCEPT
                            !.jwtPayloads = [t \in DOMAIN called.jwtPayloads \cup {typeName} |->
                                               IF t = typeName THEN payload.payload
                                               ELSE called.jwtPayloads[t]],
                            !.i = called.i + 1,
                            !.pc = IF called.i = Len(called.typesToVerify) THEN "proceed" ELSE "loop"]

\* a loop body that reads the headers of the request that arrived last
LoopBodyLatestHeaders(r, typeName) ==
  LET latest == IF waiting = <<>> THEN r ELSE waiting[Len(waiting)]
      body == LoopBodyIn([r EXCEPT !.headers = latest.headers], typeName, debug)
  IN  [body EXCEPT !.headers = r.headers]

\* a loop body that runs in diagnostics mode whatever the configuration
LoopBodyVerbose(r, typeName) == LoopBodyIn(r, typeName, TRUE)

LoopBody(r, typeName) == LoopBodyIn(r, typeName, debug)

\* one pass of the loop over typesToVerify
HookIterate ==
  /\ req.pc = "loop"
  /\ req' = LoopBody(req, req.typesToVerify[req.i])
  /\ UNCHANGED <<plugin, svars, requiredTypes, swaggerRoutePrefix, waiting, now, token, issued, call, result>>

\* the handling of the request in hand is suspended: its continuation waits
\* on the event loop and the server is free to take up another request
Yield ==
  /\ req.pc # "idle"
  /\ Len(waiting) < MaxRequests - 1
  /\ waiting' = Append(waiting, req)
  /\ req' = IdleReq
  /\ UNCHANGED <<plugin, svars, requiredTypes, swaggerRoutePrefix, now, token, issued, call, result>>

\* the handling of the k-th waiting request is resumed, the request in hand
\* taking its place
Resume(k) ==
  /\ k \in 1..Len(waiting)
  /\ req' = waiting[k]
  /\ waiting' = IF req.pc = "idle"
                  THEN SubSeq(waiting, 1, k - 1) \o SubSeq(waiting, k + 1, Len(waiting))
                ELSE [waiting EXCEPT ![k] = req]
  /\ UNCHANGED <<plugin, svars, requiredTypes, swaggerRoutePrefix, now, token, issued, call, result>>

----------------------------------------------------------------------------
(* setupSwagger.  A path is the list of its pieces: "/" and the words between. *)

\* options.swagger is undefined
NoSwagger == [configured |-> FALSE, routePrefix |-> <<>>]

\* a setupSwagger that hands the configured prefix on as it was written
setupSwaggerAsWritten(swagger) ==
  IF ~swagger.configured THEN <<>>
  ELSE IF swagger.routePrefix = <<>> THEN <<"/", "docs", "/">> ELSE swagger.routePrefix

\* setupSwagger(fastify, options): the route prefix it returns, <<>> standing
\* for undefined
setupSwagger(swagger) ==
  IF ~swagger.configured THEN <<>>
  ELSE LET given == IF swagger.routePrefix = <<>> THEN <<"/", "docs", "/">> ELSE swagger.routePrefix
           led == IF given[1] # "/" THEN <<"/">> \o given ELSE given
       IN  IF led[Len(led)] # "/" THEN led \o <<"/">> ELSE led

\* createFastify sets Swagger up and hands the prefix to the verification hook
SetupSwagger(swagger) ==
  /\ call.op = "none"
  /\ swaggerRoutePrefix' = setupSwagger(swagger)
  /\ call' = [op |-> "setupSwagger", typeName |-> Undefined, headerValue |-> NoHeaderValue,
              options |-> NoOptions, payload |-> EmptyClaims, payloadAfter |-> EmptyClaims,
              swagger |-> swagger]
  /\ result' = NoResult
  /\ UNCHANGED <<plugin, svars, requiredTypes, req, waiting, now, token, issued>>

----------------------------------------------------------------------------
(* src/lib/plugins/healthPlugin.ts *)

\* the url of the route of healthPlugin
HealthUrl == <<"/", "v1", "/", "health">>

\* the config of the route: { jwt: false }, which has no jwtTypes
HealthRouteConfig == [jwt |-> "false", jwtTypes |-> NoJwtTypes]

\* the handler of the route answers a request the hook let through
HealthHandler ==
  /\ req.pc = "proceed"
  /\ req.url = HealthUrl
  /\ req' = [req EXCEPT !.pc = "handled",
                        !.reply = [status |-> 200, error |-> "", message |-> <<"ok">>,
                                   typeName |-> Undefined],
                        !.replies = req.replies + 1]
  /\ UNCHANGED <<plugin, svars, requiredTypes, swaggerRoutePrefix, waiting, now, token, issued, call, result>>

----------------------------------------------------------------------------
(* src/lib/plugin.ts: createFastifyPlugin *)

\* no plugin is being registered
NoPlugin == [pc |-> "idle", doneCalled |-> FALSE, dones |-> <<>>, later |-> <<>>]

\* doneWrapper(err) called once for each argument of errs, in order: done(err),
\* then doneCalled = true
RECURSIVE DoneWrapperCalls(_, _)
DoneWrapperCalls(p, errs) ==
  IF errs = <<>> THEN p
  ELSE DoneWrapperCalls([p EXCEPT !.dones = Append(p.dones, errs[1]), !.doneCalled = TRUE],
                        Tail(errs))

\* Fastify calls createFastifyPluginWrapper(fastify, options, done) for a plugin
\* whose callback calls the done it is given once for each element of sync
\* before it returns and keeps it for the calls of later: the wrapper runs the
\* callback and then calls done() if doneCalled is still false
PluginWrapper(sync, later) ==
  /\ plugin.pc = "idle"
  /\ LET ran == DoneWrapperCalls([NoPlugin EXCEPT !.later = later], sync)
     IN  plugin' = [(IF ran.doneCalled THEN ran
                     ELSE [ran EXCEPT !.dones = Append(ran.dones, "undefined")])
                      EXCEPT !.pc = "returned"]
  /\ UNCHANGED <<svars, hvars, now, token, issued, call, result>>

\* the plugin callback, having returned, calls the done it was given
LaterDone ==
  /\ plugin.pc = "returned"
  /\ plugin.later # <<>>
  /\ plugin' = [DoneWrapperCalls(plugin, <<plugin.later[1]>>) EXCEPT !.later = Tail(plugin.later)]
  /\ UNCHANGED <<svars, hvars, now, token, issued, call, result>>

----------------------------------------------------------------------------
(* Specifications *)

NoHook ==
  /\ requiredTypes = NoList
  /\ swaggerRoutePrefix = <<>>
  /\ req = IdleReq
  /\ waiting = <<>>

Fresh ==
  /\ plugin = NoPlugin
  /\ now = 0
  /\ token = NoToken
  /\ issued = NoIssued
  /\ call = NoCall
  /\ result = NoResult

\* One registered type, "access", over every combination of header claims,
\* lifetime, payload schema, issuer and allowed issuers; callers generate a
\* token, let time pass and verify it.
InitService ==
  /\ secrets = FullStore
  /\ defaultKeyId \in KeyIds
  /\ debug = FALSE
  /\ \E hdr \in {hc \in HeaderConfigs : hc = NoHeader \/ Len(hc) <= 1},
        exp \in {0, 1, 2},
        schema \in {Undefined, "strip", "passthrough", "strict"},
        iss \in {Undefined, "svc-a"},
        allowed \in {NoList, <<"svc-a">>} :
       tokenTypes = [t \in {"access"} |->
                       TypeConfig(hdr, exp, schema, Undefined, iss, Undefined, allowed)]
  /\ NoHook
  /\ Fresh

NextService ==
  \/ \E t \in TypeNames, p \in Payloads : Generate(t, p)
  \/ \E t \in TypeNames : Verify(t)
  \/ Tick

SpecService == InitService /\ [][NextService]_vars

\* tokens signed elsewhere with one of the secrets, under a key id of their choice
KeyTokens ==
  { [parts |-> 3, hform |-> "object",
     h |-> [EmptyHdr EXCEPT !["alg"] = "HS256", !["typ"] = "JWT", !["kid"] = k],
     pform |-> "object", c |-> [EmptyClaims EXCEPT !.uid = "u1", !.iat = 0],
     sig |-> s] : k \in KeyIds, s \in {SecretOf(x) : x \in KeyIds} }

\* Key rotation: services are rebuilt with another default key id or with a
\* key id dropped while tokens signed earlier are still in circulation.
InitKeys ==
  /\ secrets = FullStore
  /\ defaultKeyId \in KeyIds
  /\ debug \in BOOLEAN
  /\ \E hdr \in {NoHeader, << <<"typ", "at">> >>} :
       tokenTypes = [t \in {"access"} |->
                       TypeConfig(hdr, 2, Undefined, Undefined, Undefined, Undefined, NoList)]
  /\ NoHook
  /\ Fresh

NextKeys ==
  \/ \E t \in TypeNames, p \in {q \in Payloads : q.iss = Undefined} : Generate(t, p)
  \/ \E tok \in KeyTokens : Present(tok)
  \/ \E t \in TypeNames : Verify(t)
  \/ Tick
  \/ \E k \in KeyIds : SetDefaultKeyId(k)
  \/ \E k \in KeyIds : RemoveKey(k)

SpecKeys == InitKeys /\ [][NextKeys]_vars

\* the tokens a client can present to the codec: any number of segments, any
\* form of header and payload segment, any signature segment
CodecTokens ==
  { [parts |-> n, hform |-> hf, h |-> h, pform |-> pf, c |-> c, sig |-> sg] :
      n \in {2, 3},
      hf \in {"empty", "garbage", "null", "scalar", "object"},
      h \in { [EmptyHdr EXCEPT !["alg"] = "HS256", !["typ"] = ty, !["kid"] = k, !["env"] = e] :
                ty \in {"JWT", "at"}, k \in {Undefined, "", "k1", "k2"}, e \in {Undefined, "prod"} },
      pf \in {"empty", "object"},
      c \in { [EmptyClaims EXCEPT !.uid = "u1", !.iat = 0, !.iss = i, !.exp = x] :
                i \in {Undefined, "", "svc-a", "svc-b"}, x \in {NoNum, 2} },
      sg \in {"", "s1", "s2"} }

\* a segment that does not decode to an object carries no fields
WellTyped(tok) ==
  /\ tok.hform # "object" => tok.h = [EmptyHdr EXCEPT !["alg"] = "HS256", !["typ"] = "JWT"]
  /\ tok.pform # "object" => tok.c = [EmptyClaims EXCEPT !.uid = "u1", !.iat = 0]

\* The codec pipeline: one type verifies whatever token a client presents, at
\* any clock value; key id k2 is not in the secrets.
InitCodec ==
  /\ secrets = [k \in {"k1"} |-> SecretOf(k)]
  /\ defaultKeyId = "k1"
  /\ debug \in BOOLEAN
  /\ \E hdr \in {NoHeader, << <<"typ", "at">> >>, << <<"env", "prod">> >>},
        allowed \in {NoList, <<>>, <<"svc-a">>, <<"svc-a", "">>} :
       tokenTypes = [t \in {"access"} |->
                       TypeConfig(hdr, 2, Undefined, Undefined, Undefined, Undefined, allowed)]
  /\ NoHook
  /\ Fresh

NextCodec ==
  \/ \E tok \in {t \in CodecTokens : WellTyped(t)} : Present(tok)
  \/ \E t \in TypeNames : Verify(t)
  \/ Tick

SpecCodec == InitCodec /\ [][NextCodec]_vars

\* the tokens a client can present with any combination of header fields, each
\* signed under the secret of its own kid
HeaderTokens ==
  { [parts |-> 3, hform |-> "object",
     h |-> [EmptyHdr EXCEPT !["alg"] = "HS256", !["typ"] = ty, !["kid"] = k,
                            !["cty"] = ct, !["env"] = e],
     pform |-> "object", c |-> [EmptyClaims EXCEPT !.uid = "u1", !.iat = 0],
     sig |-> SecretOf(k)] :
      ty \in {"JWT", "at"}, k \in KeyIds, ct \in {Undefined, "json"},
      e \in {Undefined, "prod", "staging", ObjValue} }

\* Header claims: one type over every header-claim configuration verifies the
\* tokens it generates and the tokens clients present.
InitHeader ==
  /\ secrets = FullStore
  /\ defaultKeyId \in KeyIds
  /\ debug \in BOOLEAN
  /\ \E hdr \in HeaderConfigs :
       tokenTypes = [t \in {"access"} |->
                       TypeConfig(hdr, 2, Undefined, Undefined, Undefined, Undefined, NoList)]
  /\ NoHook
  /\ Fresh

NextHeader ==
  \/ \E t \in TypeNames, p \in {q \in Payloads : q.uid = "u1" /\ q.iss = Undefined /\ q.iat = NoNum} :
       Generate(t, p)
  \/ \E tok \in HeaderTokens : Present(tok)
  \/ \E t \in TypeNames : Verify(t)

SpecHeader == InitHeader /\ [][NextHeader]_vars

\* the registry of the request-level runs: a bearer type and a service type
\* that only accepts tokens issued by svc-a
HookTypes ==
  [t \in TypeNames |->
     IF t = "access"
       THEN [TypeConfig(NoHeader, 2, Undefined, Undefined, Undefined, Undefined, NoList)
               EXCEPT !.headerName = "Authorization"]
     ELSE [TypeConfig(NoHeader, 2, Undefined, Undefined, "svc-a", Undefined, <<"svc-a">>)
             EXCEPT !.headerName = "x-service-authorization"]]

\* the token the service issues for type t at clock value 0
TokenFor(t) ==
  signToken([EmptyClaims EXCEPT !.uid = "u1"], SecretOf("k1"), "k1", HookTypes[t].expiresIn,
            [algorithm |-> HookTypes[t].algorithm, iss |-> HookTypes[t].iss,
             aud |-> HookTypes[t].aud, header |-> HookTypes[t].header], 0).token

\* the values a client sends in the header named name: none, a bearer token of
\* the type read from that header, a bearer token that fails verification there
\* (a forged signature, another type's token without the issuer), a token
\* without the Bearer prefix or under another scheme
HeaderValues(name) ==
  {NoHeaderValue}
  \cup { [present |-> TRUE, scheme |-> "Bearer", ws |-> 1, tok |-> tk, rest |-> ""] :
           tk \in IF name = "authorization"
                    THEN {TokenFor("access"), [TokenFor("access") EXCEPT !.sig = "s2"]}
                  ELSE {TokenFor("service"), TokenFor("access")} }
  \cup { IF name = "authorization"
           THEN [present |-> TRUE, scheme |-> "", ws |-> 0, tok |-> TokenFor("access"), rest |-> ""]
         ELSE [present |-> TRUE, scheme |-> "Token", ws |-> 1, tok |-> TokenFor("service"), rest |-> ""] }
  \cup { hv \in {[present |-> TRUE, scheme |-> "", ws |-> 0, tok |-> TokenFor("service"), rest |-> ""]} :
          name # "authorization" }

\* the type names a configuration can list: the registered ones and one that is not
ListedNames == TypeNames \cup {"ghost"}

\* the secret stores a service is handed: both keys, one key, a key without secret
Stores ==
  { FullStore, [k \in {"k1"} |-> SecretOf(k)], [k \in {"k2"} |-> SecretOf(k)],
    [k \in KeyIds |-> IF k = "k1" THEN SecretOf(k) ELSE ""] }

\* Token generation: a service over every store and every default key id
\* registerJWT lets through or a direct construction allows, with one
\* registered type over every signing configuration, is asked for tokens of
\* registered and unregistered types.
InitGenerate ==
  /\ secrets \in Stores
  /\ defaultKeyId \in KeyIds \cup InheritedNames
  /\ debug \in BOOLEAN
  /\ \E hdr \in {NoHeader, << <<"typ", "at">> >>, << <<"env", "prod">>, <<"cty", "json">> >>},
        alg \in {Undefined, "HS512"},
        iss \in {Undefined, "", "svc-a"},
        aud \in {Undefined, "api"} :
       tokenTypes = [t \in {"access"} |->
                       TypeConfig(hdr, 2, Undefined, alg, iss, aud, NoList)]
  /\ NoHook
  /\ Fresh

NextGenerate ==
  \E t \in ListedNames, p \in Payloads : Generate(t, p)

SpecGenerate == InitGenerate /\ [][NextGenerate]_vars

\* tokens that fail verification for every reason and tokens that pass: well
\* formed tokens over every kid, typ, payload shape, issuer, expiry and
\* signature, and one token for each way the segments can be damaged
ErrorTokens ==
  { [parts |-> 3, hform |-> "object",
     h |-> [EmptyHdr EXCEPT !["alg"] = "HS256", !["typ"] = ty, !["kid"] = k],
     pform |-> "object",
     c |-> [EmptyClaims EXCEPT !.uid = u, !.iss = i, !.exp = x],
     sig |-> sg] :
      ty \in {"JWT", "at"}, k \in {Undefined, "k1", "k2", "k3", "toString"}, u \in {Undefined, "u1"},
      i \in {Undefined, "svc-a", "svc-b"}, x \in {NoNum, 0}, sg \in {"s1", "s2"} }
  \cup { [parts |-> n, hform |-> hf,
          h |-> IF hf = "object" THEN [EmptyHdr EXCEPT !["alg"] = "HS256", !["typ"] = "JWT", !["kid"] = "k1"]
                ELSE [EmptyHdr EXCEPT !["alg"] = "HS256", !["typ"] = "JWT"],
          pform |-> pf, c |-> [EmptyClaims EXCEPT !.uid = "u1", !.iat = 0],
          sig |-> sg] :
          n \in {2, 3}, hf \in {"empty", "garbage", "null", "scalar", "object"},
          pf \in {"empty", "object"}, sg \in {"", "s1"} }

\* Verification errors: one type, with or without header claim, payload schema
\* and allowed issuers, verifies whatever token a client presents, in either
\* diagnostics mode; of the key ids tokens name only k1 is in the secrets.
InitErrors ==
  /\ secrets = [k \in {"k1"} |-> SecretOf(k)]
  /\ defaultKeyId = "k1"
  /\ debug \in BOOLEAN
  /\ \E hdr \in {NoHeader, << <<"typ", "at">> >>},
        schema \in {Undefined, "strip", "strict"},
        allowed \in {NoList, <<"svc-a">>} :
       tokenTypes = [t \in {"access"} |->
                       TypeConfig(hdr, 2, schema, Undefined, Undefined, Undefined, allowed)]
  /\ NoHook
  /\ Fresh

NextErrors ==
  \/ \E tok \in ErrorTokens : Present(tok)
  \/ \E t \in TypeNames : Verify(t)

SpecErrors == InitErrors /\ [][NextErrors]_vars

\* the token type registries an application configures: none, one type, two
\* types, with a type that lacks headerName or expiresIn among them or not
Registries ==
  LET good == TypeConfig(NoHeader, 2, Undefined, Undefined, Undefined, Undefined, NoList)
      variants == {good, [good EXCEPT !.headerName = Undefined], [good EXCEPT !.headerName = ""],
                   [good EXCEPT !.expiresIn = NoNum]}
  IN  {NoTypes}
      \cup { [t \in {"access"} |-> v] : v \in variants }
      \cup { [t \in TypeNames |-> IF t = "access" THEN a ELSE b] : a \in {good}, b \in variants }
      \cup { [t \in TypeNames |-> IF t = "access" THEN a ELSE b] : a \in variants, b \in {good} }

\* Registration: an application registers the JWT service with any options
\* and, once the service exists, asks it for tokens.
InitRegister ==
  /\ secrets = NoSecrets
  /\ defaultKeyId = Undefined
  /\ tokenTypes = NoTypes
  /\ debug = FALSE
  /\ NoHook
  /\ Fresh

\* registerJWT returned a service
ServiceCreated == defaultKeyId # Undefined

NextRegister ==
  \/ \E options \in [secrets : Stores, defaultKeyId : KeyIds \cup InheritedNames,
                      tokenTypes : Registries, debug : BOOLEAN] :
       Register(options)
  \/ \E t \in ListedNames, p \in {q \in Payloads : q.uid = "u1" /\ q.iss = Undefined} :
       ServiceCreated /\ Generate(t, p)

SpecRegister == InitRegister /\ [][NextRegister]_vars

\* the header values extraction is tried on: the empty string, a single word
\* (a scheme alone or a token alone), and a scheme followed by whitespace, by
\* a token or nothing, and by further text or nothing
ExtractValues ==
  {NoHeaderValue}
  \cup { hv \in [present : {TRUE}, scheme : {"", "Bearer", "bearer", "bEaReR", "Token"},
                 ws : 0..MaxSpaces, tok : {NoToken, TokenFor("access")}, rest : {"", "x"}] :
          /\ hv.ws = 0 => (hv.rest = "" /\ (hv.scheme = "" \/ hv.tok = NoToken))
          /\ hv.tok = NoToken => hv.rest = "" }

\* Extraction: the service of either diagnostics mode extracts the token of a
\* type from every form of header value.
InitExtract ==
  /\ secrets = FullStore
  /\ defaultKeyId = "k1"
  /\ debug \in BOOLEAN
  /\ tokenTypes = HookTypes
  /\ NoHook
  /\ Fresh

NextExtract ==
  \E t \in ListedNames, hv \in ExtractValues : Extract(t, hv)

SpecExtract == InitExtract /\ [][NextExtract]_vars

\* the headers of the requests handled concurrently: with and without a valid
\* access token, with a valid service token, a failing one or none
ConcurrentHeaders ==
  { [h \in HeaderNames |-> IF h = "authorization" THEN a ELSE x] :
      a \in {NoHeaderValue,
             [present |-> TRUE, scheme |-> "Bearer", ws |-> 1, tok |-> TokenFor("access"), rest |-> ""]},
      x \in {NoHeaderValue,
             [present |-> TRUE, scheme |-> "Bearer", ws |-> 1, tok |-> TokenFor("service"), rest |-> ""],
             [present |-> TRUE, scheme |-> "Bearer", ws |-> 1,
              tok |-> [TokenFor("service") EXCEPT !.c.uid = "u2", !.sig = "s2"], rest |-> ""]} }

\* Concurrent requests: the server takes up to MaxRequests requests at a time
\* and runs the steps of their hooks in any interleaving.
InitConcurrent ==
  /\ secrets = FullStore
  /\ defaultKeyId = "k1"
  /\ debug = FALSE
  /\ tokenTypes = HookTypes
  /\ requiredTypes \in {NoList, <<"access">>}
  /\ swaggerRoutePrefix = <<>>
  /\ req = IdleReq
  /\ waiting = <<>>
  /\ Fresh

NextConcurrent ==
  \/ \E jwtTypes \in {NoJwtTypes, [is |-> "array", list |-> <<"service">>]},
        headers \in ConcurrentHeaders :
       Arrive(<<"/", "api">>, jwtTypes, headers)
  \/ HookStart
  \/ HookIterate
  \/ Yield
  \/ \E k \in 1..(MaxRequests - 1) : Resume(k)

SpecConcurrent == InitConcurrent /\ [][NextConcurrent]_vars

\* the characters of a secrets string: two letters, the two separators and
\* the blank
SecretChars == {"k", "j", "=", "|", " "}

\* the strings of at most n characters
RECURSIVE Texts(_)
Texts(n) ==
  IF n = 0 THEN { <<>> }
  ELSE LET shorter == Texts(n - 1)
       IN  shorter \cup { Append(t, ch) : t \in {x \in shorter : Len(x) = n - 1}, ch \in SecretChars }

\* Secrets: the application has read a secrets string from its environment
\* and parses it before it sets the server up.
InitSecrets ==
  /\ secrets = NoSecrets
  /\ defaultKeyId = Undefined
  /\ tokenTypes = NoTypes
  /\ debug = FALSE
  /\ NoHook
  /\ plugin = NoPlugin
  /\ now = 0
  /\ token = NoToken
  /\ issued = NoIssued
  /\ result = NoResult
  /\ \E text \in Texts(MaxSecretsLen) :
       call = [op |-> "read", typeName |-> Undefined, headerValue |-> NoHeaderValue,
               options |-> NoOptions, payload |-> EmptyClaims, payloadAfter |-> EmptyClaims,
               text |-> text]

NextSecrets == ParseSecrets

SpecSecrets == InitSecrets /\ [][NextSecrets]_vars

\* the arguments of at most n calls of done: none or an error
RECURSIVE DoneArgs(_)
DoneArgs(n) ==
  IF n = 0 THEN { <<>> }
  ELSE LET shorter == DoneArgs(n - 1)
       IN  shorter \cup { Append(a, e) : a \in {x \in shorter : Len(x) = n - 1},
                                          e \in {"undefined", "Error"} }

\* Plugins: Fastify registers a plugin made by createFastifyPlugin whose
\* callback calls done never, before it returns, after it has returned, or both.
InitPlugin ==
  /\ secrets = NoSecrets
  /\ defaultKeyId = Undefined
  /\ tokenTypes = NoTypes
  /\ debug = FALSE
  /\ NoHook
  /\ Fresh

NextPlugin ==
  \/ \E sync \in DoneArgs(MaxDoneCalls), later \in DoneArgs(MaxDoneCalls) : PluginWrapper(sync, later)
  \/ LaterDone

SpecPlugin == InitPlugin /\ [][NextPlugin]_vars

\* Health checks: a server with healthPlugin registered, with and without
\* mandatory token types, serves requests for GET /v1/health that carry
\* tokens or none.
InitHealth ==
  /\ secrets = FullStore
  /\ defaultKeyId = "k1"
  /\ debug \in BOOLEAN
  /\ tokenTypes = HookTypes
  /\ requiredTypes \in {NoList, <<>>, <<"access">>, <<"service">>, <<"access", "service">>}
  /\ swaggerRoutePrefix \in { <<>>, <<"/", "docs", "/">> }
  /\ req = IdleReq
  /\ waiting = <<>>
  /\ Fresh

NextHealth ==
  \/ \E headers \in {h \in [HeaderNames -> UNION {HeaderValues(n) : n \in HeaderNames}] :
                       \A n \in HeaderNames : h[n] \in HeaderValues(n)} :
       Arrive(HealthUrl, HealthRouteConfig.jwtTypes, headers)
  \/ HookStart
  \/ HookIterate
  \/ HealthHandler

SpecHealth == InitHealth /\ [][NextHealth]_vars

\* the Swagger options of an application: none, no prefix, and prefixes
\* written with and without the slashes around them
SwaggerOptions ==
  {NoSwagger}
  \cup { [configured |-> TRUE, routePrefix |-> rp] :
           rp \in { <<>>, <<"docs">>, <<"/", "docs">>, <<"docs", "/">>, <<"/", "docs", "/">>,
                    <<"/">>, <<"/", "api", "/", "docs">> } }

\* the urls requested of a server with Swagger
SwaggerUrls ==
  { <<"/", "docs">>, <<"/", "docs", "/">>, <<"/", "docs", "/", "json">>, <<"/", "docsx", "/">>,
    <<"/", "api">>, <<"/", "api", "/", "docs", "/">>, <<"docs", "/">> }

\* the server has been set up
SwaggerSetUp == call.op = "setupSwagger"

\* Swagger: a server is set up with or without Swagger under some route prefix
\* and serves requests for urls under and outside the prefix.
InitSwagger ==
  /\ secrets = FullStore
  /\ defaultKeyId = "k1"
  /\ debug = FALSE
  /\ tokenTypes = HookTypes
  /\ requiredTypes \in {NoList, <<"access">>, <<"ghost">>}
  /\ swaggerRoutePrefix = <<>>
  /\ req = IdleReq
  /\ waiting = <<>>
  /\ Fresh

NextSwagger ==
  \/ \E swagger \in SwaggerOptions : SetupSwagger(swagger)
  \/ \E url \in SwaggerUrls,
        jwtTypes \in {NoJwtTypes, [is |-> "false", list |-> <<>>],
                      [is |-> "array", list |-> <<"access">>],
                      [is |-> "array", list |-> <<"service", "ghost">>]},
        headers \in {h \in [HeaderNames -> UNION {HeaderValues(n) : n \in HeaderNames}] :
                       /\ h["authorization"] \in HeaderValues("authorization")
                       /\ h["x-service-authorization"] = NoHeaderValue} :
       SwaggerSetUp /\ Arrive(url, jwtTypes, headers)
  \/ HookStart
  \/ HookIterate

SpecSwagger == InitSwagger /\ [][NextSwagger]_vars

\* Two types: a service with the types access and service, configured apart
\* in header claims, algorithm, audience, issuer, allowed issuers and schema,
\* generates tokens of either type and verifies them as either type.
InitTwoTypes ==
  /\ secrets = FullStore
  /\ defaultKeyId = "k1"
  /\ debug = FALSE
  /\ \E hdrA \in {NoHeader, << <<"typ", "at">> >>},
        algA \in {Undefined, "HS512"},
        audA \in {Undefined, "api"},
        issA \in {Undefined, "svc-a", "svc-b"},
        hdrS \in {NoHeader, << <<"typ", "at">> >>},
        algS \in {Undefined, "HS384"},
        audS \in {Undefined, "web"},
        allowedS \in {NoList, <<"svc-a">>},
        schemaS \in {Undefined, "strip"} :
       tokenTypes = [t \in TypeNames |->
                       IF t = "access"
                         THEN TypeConfig(hdrA, 2, Undefined, algA, issA, audA, NoList)
                       ELSE TypeConfig(hdrS, 2, schemaS, algS, Undefined, audS, allowedS)]
  /\ NoHook
  /\ Fresh

NextTwoTypes ==
  \/ \E t \in TypeNames, p \in {[EmptyClaims EXCEPT !.uid = u] : u \in {Undefined, "u1"}} :
       Generate(t, p)
  \/ \E t \in TypeNames : Verify(t)
  \/ Tick

SpecTwoTypes == InitTwoTypes /\ [][NextTwoTypes]_vars

\* Operations: callers use every operation of one service, in any order, with
\* arguments that make each operation succeed and fail.
InitOperations ==
  /\ secrets \in {FullStore, [k \in {"k2"} |-> SecretOf(k)]}
  /\ defaultKeyId = "k1"
  /\ debug \in BOOLEAN
  /\ tokenTypes \in {HookTypes,
                     [t \in {"access"} |->
                        TypeConfig(<< <<"typ", "at">> >>, 1, "strip", "HS384", "svc-a", "web", <<"svc-a">>)]}
  /\ NoHook
  /\ Fresh

NextOperations ==
  \/ \E t \in ListedNames, p \in Payloads : Generate(t, p)
  \/ \E tok \in {TokenFor("service"), [TokenFor("access") EXCEPT !.sig = "s2"]} : Present(tok)
  \/ \E t \in ListedNames : Verify(t)
  \/ \E t \in ListedNames,
        hv \in {NoHeaderValue,
                [present |-> TRUE, scheme |-> "Bearer", ws |-> 1, tok |-> TokenFor("access"), rest |-> ""],
                [present |-> TRUE, scheme |-> "Token", ws |-> 1, tok |-> TokenFor("access"), rest |-> ""]} :
       Extract(t, hv)
  \/ \E t \in ListedNames : GetTokenTypeConfig(t)
  \/ GetTokenTypeNames
  \/ Tick

SpecOperations == InitOperations /\ [][NextOperations]_vars

\* the values of the authorization header in the diagnostics runs: every form
\* of value, and every token behind a well-formed Bearer prefix
DiagnosticValues ==
  ExtractValues
  \cup { [present |-> TRUE, scheme |-> "Bearer", ws |-> 1, tok |-> tk, rest |-> ""] :
           tk \in ErrorTokens }

\* Diagnostics: the same service and hook, set up with diagnostics on or off,
\* verify tokens, extract tokens and serve requests whose token fails
\* verification for every reason.
InitDiagnostics ==
  /\ secrets = [k \in {"k1"} |-> SecretOf(k)]
  /\ defaultKeyId = "k1"
  /\ debug \in BOOLEAN
  /\ \E hdr \in {NoHeader, << <<"typ", "at">> >>},
        schema \in {Undefined, "strip"},
        allowed \in {NoList, <<"svc-a">>} :
       tokenTypes = [t \in {"access"} |->
                       TypeConfig(hdr, 2, schema, Undefined, Undefined, Undefined, allowed)]
  /\ requiredTypes = <<"access">>
  /\ swaggerRoutePrefix = <<>>
  /\ req = IdleReq
  /\ waiting = <<>>
  /\ Fresh

\* no service call was made and no request has arrived
Untouched == req.pc = "idle" /\ token = NoToken /\ call = NoCall

NextDiagnostics ==
  \/ \E tok \in ErrorTokens : Untouched /\ Present(tok)
  \/ \E t \in TypeNames : Verify(t)
  \/ \E t \in ListedNames, hv \in ExtractValues : Untouched /\ Extract(t, hv)
  \/ \E jwtTypes \in {NoJwtTypes, [is |-> "array", list |-> <<"ghost">>]},
        hv \in DiagnosticValues :
       /\ Untouched
       /\ Arrive(<<"/", "api">>, jwtTypes,
                 [h \in HeaderNames |-> IF h = "authorization" THEN hv ELSE NoHeaderValue])
  \/ HookStart
  \/ HookIterate

SpecDiagnostics == InitDiagnostics /\ [][NextDiagnostics]_vars

RECURSIVE NameLists(_)
NameLists(n) ==
  IF n = 0 THEN { <<>> }
  ELSE NameLists(n - 1) \cup
       { Append(l, x) : l \in {y \in NameLists(n - 1) : Len(y) = n - 1}, x \in ListedNames }

Urls == { <<"/", "docs", "/", "json">>, <<"/", "api">> }

\* Requests through the verification hook, for every list of mandatory types,
\* every route declaration and every combination of the two token headers.
InitHook ==
  /\ secrets = FullStore
  /\ defaultKeyId = "k1"
  /\ debug \in BOOLEAN
  /\ tokenTypes = HookTypes
  /\ requiredTypes \in {NoList} \cup NameLists(MaxTypes)
  /\ swaggerRoutePrefix \in { <<>>, <<"/", "docs", "/">> }
  /\ req = IdleReq
  /\ waiting = <<>>
  /\ Fresh

NextHook ==
  \/ \E url \in Urls,
        jwtTypes \in {NoJwtTypes, [is |-> "false", list |-> <<>>]}
                     \cup {[is |-> "array", list |-> l] : l \in NameLists(MaxTypes)},
        headers \in {h \in [HeaderNames -> UNION {HeaderValues(n) : n \in HeaderNames}] :
                       \A n \in HeaderNames : h[n] \in HeaderValues(n)} :
       Arrive(url, jwtTypes, headers)
  \/ HookStart
  \/ HookIterate

SpecHook == InitHook /\ [][NextHook]_vars

----------------------------------------------------------------------------
(* Claims *)

\* the call just made verified, as the type that issued it, the unaltered token
\* the service last issued
VerifiedIssued ==
  /\ call.op = "verifyToken"
  /\ token # NoToken
  /\ token = issued.token
  /\ call.typeName = issued.typeName

\* p plus the standard claims generateToken adds for type configuration cfg
PlusStandardClaims(p, cfg, tok) ==
  [p EXCEPT !.iat = tok.c.iat,
            !.exp = tok.c.exp,
            !.iss = IF Falsy(cfg.iss) THEN p.iss ELSE cfg.iss,
            !.aud = IF Falsy(cfg.aud) THEN p.aud ELSE cfg.aud]

StringValued(hc) == hc = NoHeader \/ \A i \in 1..Len(hc) : hc[i][2] # ObjValue

\* C1 (round trip), for the types that declare no payload schema and no allowed
\* issuers and whose header claims are strings: verifying, before expiry and as
\* the issuing type, a token generateToken returned succeeds and returns the
\* payload plus the standard claims, whatever the type's header claims are.
C1_RoundTrip ==
  (/\ VerifiedIssued
   /\ now < token.c.exp
   /\ tokenTypes[issued.typeName].payloadSchema = Undefined
   /\ tokenTypes[issued.typeName].allowedIss = NoList
   /\ StringValued(tokenTypes[issued.typeName].header))
  => /\ result.ok
     /\ result.payload = PlusStandardClaims(issued.payload, tokenTypes[issued.typeName], token)

VerifiedAs(cfgOf) == call.op = "verifyToken" /\ call.typeName \in DOMAIN cfgOf

TypeOfCall == tokenTypes[call.typeName]

\* the pipeline steps a token fails, as the specification words them
FailsStructure(tok) == tok.parts # 3 \/ tok.hform = "empty" \/ tok.pform = "empty" \/ tok.sig = ""

FailsHeaderDecode(tok) == tok.hform # "object"

FailsKid(tok) == tok.h["kid"] \in {Undefined, ""}

FailsHeaderClaims(tok, hc) ==
  /\ hc # NoHeader
  /\ \E i \in 1..Len(hc) : hc[i][2] # Undefined /\ tok.h[hc[i][1]] # hc[i][2]

FailsSecretLookup(tok) == tok.h["kid"] \notin DOMAIN secrets

FailsSignatureOrExpiry(tok) ==
  \/ tok.sig # secrets[tok.h["kid"]]
  \/ tok.c.exp # NoNum /\ now >= tok.c.exp

FailsIssuer(tok, allowed) ==
  /\ allowed # NoList
  /\ Len(allowed) > 0
  /\ tok.c.iss \notin SeqToSet(allowed)

\* C3 (pipeline order): the error verifyToken raises is that of the earliest
\* failing step in the order structural check, header decode, kid presence,
\* header claims, secret lookup, signature and expiry, issuer.
C3_PipelineOrder ==
  VerifiedAs(tokenTypes)
  => IF FailsStructure(token) \/ FailsHeaderDecode(token) THEN result.kind = "MalformedToken"
     ELSE IF FailsKid(token) THEN result.kind = "MissingKeyId"
     ELSE IF FailsHeaderClaims(token, TypeOfCall.header) THEN result.kind = "HeaderMismatch"
     ELSE IF FailsSecretLookup(token) THEN result.kind = "UnknownKeyId"
     ELSE IF FailsSignatureOrExpiry(token) THEN result.kind \in {"InvalidToken", "TokenExpired"}
     ELSE IF FailsIssuer(token, TypeOfCall.allowedIss) THEN result.kind \in {"MissingIssuer", "IssuerNotAllowed"}
     ELSE result.ok

\* the token passes every step before the issuer step
ValidBeforeIssuer(tok) ==
  verifyToken(tok, secrets,
              [debug |-> debug, allowedIss |-> NoList, expectedHeader |-> TypeOfCall.header],
              now).ok

\* C4 (issuer gating): with a non-empty allowedIss an otherwise valid token is
\* rejected as MissingIssuer when it has no iss claim and as IssuerNotAllowed
\* when its iss is not in the list, and accepted when it is; with allowedIss
\* undefined or empty the issuer step does nothing.
C4_IssuerGating ==
  (VerifiedAs(tokenTypes) /\ ValidBeforeIssuer(token))
  => IF TypeOfCall.allowedIss # NoList /\ Len(TypeOfCall.allowedIss) > 0
       THEN IF token.c.iss = Undefined THEN result.kind = "MissingIssuer"
            ELSE IF token.c.iss \notin SeqToSet(TypeOfCall.allowedIss)
              THEN result.kind = "IssuerNotAllowed"
            ELSE result.ok
     ELSE result.ok /\ result.payload = token.c

\* C4 as amended: an iss claim that is absent or empty counts as missing.
C4_IssuerGatingFalsy ==
  (VerifiedAs(tokenTypes) /\ ValidBeforeIssuer(token))
  => IF TypeOfCall.allowedIss # NoList /\ Len(TypeOfCall.allowedIss) > 0
       THEN IF token.c.iss \in {Undefined, ""} THEN result.kind = "MissingIssuer"
            ELSE IF token.c.iss \notin SeqToSet(TypeOfCall.allowedIss)
              THEN result.kind = "IssuerNotAllowed" /\ result.msg[2] = token.c.iss
            ELSE result.ok /\ result.payload = token.c
     ELSE result.ok /\ result.payload = token.c

\* an otherwise valid token of a foreign issuer is rejected
C4_Witness ==
  /\ VerifiedAs(tokenTypes)
  /\ ValidBeforeIssuer(token)
  /\ TypeOfCall.allowedIss = <<"svc-a">>
  /\ token.c.iss = "svc-b"
  /\ result.kind = "IssuerNotAllowed"

\* the place of field k in the order typ, cty, then the custom fields as configured
FieldRank(hc, k) ==
  IF k = "typ" THEN 0
  ELSE IF k = "cty" THEN 1
  ELSE 1 + (CHOOSE i \in 1..Len(hc) : hc[i][1] = k)

\* the configured fields with a defined value that header h does not carry,
\* values compared by eq
MismatchedFields(h, hc, eq(_, _)) ==
  IF hc = NoHeader THEN {}
  ELSE {hc[i][1] : i \in {j \in 1..Len(hc) : hc[j][2] # Undefined /\ ~eq(h[hc[j][1]], hc[j][2])}}

FirstField(hc, fields) == CHOOSE k \in fields : \A x \in fields : FieldRank(hc, k) <= FieldRank(hc, x)

SameValue(a, b) == a = b

\* the token reaches the header-claim step: it is well formed and carries a kid
ReachesHeaderClaims(tok) == tok.parts = 3 /\ tok.hform = "object" /\ ~Falsy(tok.h["kid"])

HeaderClaimsEnforced(eq(_, _)) ==
  (VerifiedAs(tokenTypes) /\ ReachesHeaderClaims(token))
  => LET bad == MismatchedFields(token.h, TypeOfCall.header, eq)
     IN  /\ result.ok => bad = {}
         /\ bad # {} => /\ result.kind = "HeaderMismatch"
                        /\ result.msg[2] = FirstField(TypeOfCall.header, bad)

ValidBeforeExpiry == ServiceVerifyTokenAt(issued.typeName, token, -1).ok

ExpiryEnforced ==
  (VerifiedIssued /\ ValidBeforeExpiry)
  => IF now >= token.c.exp THEN result.kind = "TokenExpired" ELSE result.ok

\* C6 (expiry boundary): exp is the signing time plus the type's expiresIn;
\* an otherwise valid token is rejected as expired at every clock value from
\* exp on and accepted at every clock value before; a token generated with
\* expiresIn = 0s never verifies.
C6_ExpiryBoundary ==
  /\ (token # NoToken /\ token = issued.token)
     => token.c.exp = issued.at + tokenTypes[issued.typeName].expiresIn
  /\ ExpiryEnforced
  /\ (VerifiedIssued /\ tokenTypes[issued.typeName].expiresIn = 0) => ~result.ok

\* the payload handed to generateToken carries an iat of its own
OwnIat(p) == p.iat # NoNum /\ p.iat # 0

\* C6 as amended: exp is the token's iat claim plus expiresIn, and iat is the
\* signing time unless the payload carries an iat of its own; a token of
\* expiresIn = 0s never verifies unless its payload carried its own iat.
C6_ExpiryFromIat ==
  /\ (token # NoToken /\ token = issued.token)
     => /\ token.c.exp = token.c.iat + tokenTypes[issued.typeName].expiresIn
        /\ token.c.iat = IF OwnIat(issued.payload) THEN issued.payload.iat ELSE issued.at
  /\ ExpiryEnforced
  /\ (VerifiedIssued /\ tokenTypes[issued.typeName].expiresIn = 0 /\ ~OwnIat(issued.payload))
     => ~result.ok

\* a token of a positive lifetime is rejected as expired the second it expires
C6_Witness ==
  /\ VerifiedIssued
  /\ ValidBeforeExpiry
  /\ tokenTypes[issued.typeName].expiresIn > 0
  /\ now = token.c.exp
  /\ result.kind = "TokenExpired"

----------------------------------------------------------------------------
(* Claims about the verification hook *)

\* the hook has resolved the types this request must present
Resolved == req.pc \in {"loop", "proceed", "replied"}

\* the request's URL is under the Swagger route prefix
SwaggerSkipped == swaggerRoutePrefix # <<>> /\ StartsWith(req.url, swaggerRoutePrefix)

\* the mandatory types as a list
Mandatory == IF requiredTypes = NoList THEN <<>> ELSE requiredTypes

NoRepeat(list) == \A a, b \in 1..Len(list) : list[a] = list[b] => a = b

\* position of the first occurrence of x in list
FirstIndex(x, list) == CHOOSE a \in 1..Len(list) : list[a] = x /\ \A b \in 1..(a - 1) : list[b] # x

\* out holds every element of list once, in the order of first occurrence in list
FirstSeenOrder(out, list) ==
  /\ SeqToSet(out) = SeqToSet(list)
  /\ NoRepeat(out)
  /\ \A a, b \in 1..Len(out) : a < b => FirstIndex(out[a], list) < FirstIndex(out[b], list)

\* the route-declared types not among the mandatory ones, each once, in order
RouteOnly == SelectSeq(SetOrder(req.jwtTypes.list), LAMBDA t : t \notin SeqToSet(Mandatory))

C8_NoDuplicateTypes ==
  /\ NoRepeat(req.typesToVerify)
  /\ NoRepeat(req.verified)

\* type name t is unregistered, has no extractable token on this request, or
\* its token fails verification
FailsType(t) ==
  \/ t \notin DOMAIN tokenTypes
  \/ LET headerValue == req.headers[ToLowerCase(tokenTypes[t].headerName)]
         extracted == ServiceExtractToken(headerValue, t)
     IN  \/ ~extracted.ok
         \/ extracted.token = NoToken
         \/ ~ServiceVerifyToken(t, extracted.token).ok

\* the header names of the registered types among the first n resolved ones
HeadersOfFirst(n) ==
  LET registered == SelectSeq(SubSeq(req.typesToVerify, 1, n), LAMBDA t : t \in DOMAIN tokenTypes)
  IN  [a \in 1..Len(registered) |-> ToLowerCase(tokenTypes[registered[a]].headerName)]

\* C9: the hook processes the resolved types in order and stops at the first
\* one that is unregistered, has no extractable token or fails verification:
\* the rejection is for that type, exactly one reply is sent, and no header is
\* read and no token verified for any later type.
C9_FailFast ==
  /\ req.pc \in {"loop", "proceed"} => req.replies = 0 /\ req.reply = NoReply
  /\ req.pc = "loop" => \A j \in 1..(req.i - 1) : ~FailsType(req.typesToVerify[j])
  /\ req.pc = "replied" =>
       /\ req.replies = 1
       /\ req.i \in 1..Len(req.typesToVerify)
       /\ req.reply.typeName = req.typesToVerify[req.i]
       /\ FailsType(req.typesToVerify[req.i])
       /\ \A j \in 1..(req.i - 1) : ~FailsType(req.typesToVerify[j])
       /\ req.reads = HeadersOfFirst(req.i)
       /\ \E n \in {req.i - 1, req.i} : req.verified = SubSeq(req.typesToVerify, 1, n)

\* the first type verified, the second was rejected, and a third was never looked at
C9_Witness ==
  /\ req.pc = "replied"
  /\ req.i = 2
  /\ Len(req.typesToVerify) = 3
  /\ req.verified = SubSeq(req.typesToVerify, 1, 1)
  /\ req.reply.status = 401
  /\ Len(req.reads) = 2

\* C10: request.jwtPayloads is attached only when every required type verified:
\* a rejected request carries no map, not even a partial one, and on success
\* the map's keys are exactly the resolved types, each mapped to the payload
\* verifyToken returned for it.
C10_OutcomeMap ==
  /\ req.pc = "replied" => ~req.hasPayloads /\ DOMAIN req.jwtPayloads = {}
  /\ (req.pc = "proceed" /\ req.typesToVerify # <<>>) =>
       /\ req.hasPayloads
       /\ DOMAIN req.jwtPayloads = SeqToSet(req.typesToVerify)
       /\ \A t \in DOMAIN req.jwtPayloads :
            req.jwtPayloads[t] =
              ServiceVerifyToken(t, req.headers[ToLowerCase(tokenTypes[t].headerName)].tok).payload

\* nothing is required of this request: the route declares jwtTypes: false, or
\* neither the mandatory types nor the route name any type
NothingRequired ==
  \/ req.jwtTypes.is = "false"
  \/ Mandatory = <<>> /\ (req.jwtTypes.is # "array" \/ req.jwtTypes.list = <<>>)

\* C11: when the route declares jwtTypes: false or the resolved list is empty,
\* the hook lets the request proceed without reading a header, without calling
\* the JWT service, without sending a reply and without creating
\* request.jwtPayloads.
C11_NoRequirement ==
  (Resolved /\ NothingRequired)
  => /\ req.pc = "proceed"
     /\ req.reads = <<>>
     /\ req.verified = <<>>
     /\ req.replies = 0 /\ req.reply = NoReply
     /\ ~req.hasPayloads /\ DOMAIN req.jwtPayloads = {}

\* a route that opts out proceeds untouched although types are mandatory and
\* the request carries a header that would not verify
C11_Witness ==
  /\ req.pc = "proceed"
  /\ req.jwtTypes.is = "false"
  /\ ~SwaggerSkipped
  /\ requiredTypes = <<"access", "service">>
  /\ req.headers["authorization"].present
  /\ FailsType("access")
  /\ ~req.hasPayloads

RawValidToken(hv, t) ==
  /\ hv.present /\ hv.scheme = "" /\ hv.ws = 0 /\ hv.rest = ""
  /\ hv.tok # NoToken
  /\ ServiceVerifyToken(t, hv.tok).ok

\* C14: for a type configured with a custom header name, a request that sends
\* the raw token in that header, with no Bearer prefix, satisfies the type's
\* requirement: the hook is never the one to reject the request for that type.
C14_RawCustomHeader ==
  \A t \in DOMAIN tokenTypes :
    LET name == ToLowerCase(tokenTypes[t].headerName)
    IN  (/\ name # "authorization"
         /\ req.pc = "replied"
         /\ req.reply.typeName = t)
        => ~RawValidToken(req.headers[name], t)

----------------------------------------------------------------------------
(* Claims about extraction and the service's error handling *)

\* the call just made extracted the token of a registered type
Extracted == call.op = "extractTokenFromHeader" /\ call.typeName \in DOMAIN tokenTypes

\* the value reads Bearer, in any case, then whitespace, then a token and nothing more
MatchesBearer(hv) ==
  /\ hv.scheme \in {"Bearer", "bearer", "BEARER", "bEaReR"}
  /\ hv.ws >= 1
  /\ hv.tok # NoToken
  /\ hv.rest = ""

\* extraction answered absent (null)
Absent == result.ok /\ result.token = NoToken

\* extraction behaves as claimed for the values in missing, which count as no header
ExtractionOf(missing) ==
  Extracted =>
    IF call.headerValue \in missing THEN Absent
    ELSE IF MatchesBearer(call.headerValue)
      THEN result.ok /\ result.token = call.headerValue.tok
    ELSE IF debug THEN ~result.ok /\ result.kind = "BadHeaderFormat"
    ELSE Absent

\* C13: a missing header yields absent in both modes, a value matching
\* 'Bearer <token>' (scheme in any case) yields the token, and every present
\* value that does not match yields absent without diagnostics and raises a
\* diagnostic error with diagnostics.
C13_Extraction == ExtractionOf({NoHeaderValue})

\* C13 as amended: a header whose value is the empty string counts as missing
\* and yields absent in both modes.
C13_ExtractionEmptyIsMissing ==
  ExtractionOf({NoHeaderValue, [NoHeaderValue EXCEPT !.present = TRUE]})

\* with diagnostics the value "Token <token>" raises the diagnostic error
C13_Witness ==
  /\ Extracted
  /\ debug
  /\ call.headerValue.scheme = "Token"
  /\ call.headerValue.ws = 1
  /\ call.headerValue.tok # NoToken
  /\ result.kind = "BadHeaderFormat"

\* the call just made was generateToken
Generated == call.op = "generateToken"

\* the store holds no secret under the default key id
NoDefaultSecret == defaultKeyId \notin DOMAIN secrets \/ secrets[defaultKeyId] = ""

\* the call produced no token
NoTokenProduced == ~result.ok /\ result.token = NoToken /\ token = NoToken

\* the token produced is signed under the default key with the type's
\* algorithm, issuer, audience and header claims
SignedAsConfigured(cfg) ==
  /\ result.token = token /\ token # NoToken
  /\ token.sig = secrets[defaultKeyId]
  /\ HeaderGet(cfg.header, "alg") = Undefined
       => token.h["alg"] = IF Falsy(cfg.algorithm) THEN "HS256" ELSE cfg.algorithm
  /\ ~Falsy(cfg.iss) => token.c.iss = cfg.iss
  /\ ~Falsy(cfg.aud) => token.c.aud = cfg.aud
  /\ cfg.header # NoHeader =>
       \A i \in 1..Len(cfg.header) :
         cfg.header[i][2] # Undefined => token.h[cfg.header[i][1]] = cfg.header[i][2]

\* jsonwebtoken refuses a payload that already carries exp, or iss or aud when
\* the type configures them
PayloadConflicts(p, cfg) ==
  \/ p.exp # NoNum
  \/ ~Falsy(cfg.iss) /\ p.iss # Undefined
  \/ ~Falsy(cfg.aud) /\ p.aud # Undefined

\* generateToken's error handling, signing succeeding whenever accepts(p, cfg)
GenerateOutcome(accepts(_, _)) ==
  Generated =>
    IF call.typeName \notin DOMAIN tokenTypes
      THEN result.kind = "UnknownTokenType" /\ NoTokenProduced
    ELSE IF NoDefaultSecret
      THEN result.kind = "MissingDefaultSecret" /\ NoTokenProduced
    ELSE /\ result.kind \notin {"UnknownTokenType", "MissingDefaultSecret"}
         /\ result.ok => SignedAsConfigured(tokenTypes[call.typeName])
         /\ result.ok <=> \E p \in Payloads :
                            /\ result = generateToken(call.typeName, p)
                            /\ accepts(p, tokenTypes[call.typeName])

NoConflict(p, cfg) == ~PayloadConflicts(p, cfg)

\* C15: generateToken fails with UnknownTokenType for an unregistered type,
\* before it looks at the default secret; for a registered type it fails with
\* MissingDefaultSecret when the store has no secret under defaultKeyId; in
\* both cases no token is produced; otherwise it signs with the type's
\* algorithm, issuer, audience and header claims, every payload jsonwebtoken
\* does not refuse yielding a token.
C15_GenerateErrors == GenerateOutcome(NoConflict)

\* the token fails one of the checks of the codec, as the specification words them
CodecFailure(tok, cfg) ==
  \/ FailsStructure(tok)
  \/ FailsHeaderDecode(tok)
  \/ FailsKid(tok)
  \/ FailsHeaderClaims(tok, cfg.header)
  \/ FailsSecretLookup(tok)
  \/ FailsSignatureOrExpiry(tok)
  \/ FailsIssuer(tok, cfg.allowedIss)

\* the claims satisfy the type's payload schema
SatisfiesSchema(c, schema) ==
  /\ c.uid # Undefined
  /\ schema = "strict" => c = [EmptyClaims EXCEPT !.uid = c.uid]

\* the first words of the messages raised for a schema failure
SchemaMessages == {"Invalid token payload", "Token payload validation failed:"}

\* C16: for a type that declares a payloadSchema the decoded payload is
\* validated against the schema only after every codec check has passed; a
\* schema failure is raised as InvalidPayloadShape, with a message no codec
\* error carries, and a token that fails a codec check is never reported as
\* InvalidPayloadShape.
C16_SchemaAfterCodec ==
  VerifiedAs(tokenTypes) =>
    /\ CodecFailure(token, TypeOfCall)
         => ~result.ok /\ result.kind # "InvalidPayloadShape" /\ result.msg[1] \notin SchemaMessages
    /\ (~CodecFailure(token, TypeOfCall) /\ TypeOfCall.payloadSchema # Undefined)
         => IF SatisfiesSchema(token.c, TypeOfCall.payloadSchema) THEN result.ok
            ELSE result.kind = "InvalidPayloadShape" /\ result.msg[1] \in SchemaMessages
    /\ result.kind = "InvalidPayloadShape"
         => /\ ~result.ok
            /\ TypeOfCall.payloadSchema # Undefined
            /\ ~CodecFailure(token, TypeOfCall)

\* a token that passes every codec check fails the schema of its type
C16_Witness ==
  /\ VerifiedAs(tokenTypes)
  /\ TypeOfCall.payloadSchema = "strip"
  /\ TypeOfCall.allowedIss = <<"svc-a">>
  /\ TypeOfCall.header # NoHeader
  /\ ~CodecFailure(token, TypeOfCall)
  /\ token.c.uid = Undefined
  /\ result.kind = "InvalidPayloadShape"

\* the call just made was registerJWT
Registering == call.op = "registerJWT"

\* the options name a default key id that is no key of the secrets, no token
\* type, or a token type without headerName or expiresIn
InvalidOptions(options) ==
  \/ options.defaultKeyId \notin DOMAIN options.secrets
  \/ DOMAIN options.tokenTypes = {}
  \/ \E t \in DOMAIN options.tokenTypes :
       \/ options.tokenTypes[t].headerName \in {Undefined, ""}
       \/ options.tokenTypes[t].expiresIn = NoNum

\* C17: registerJWT fails, without creating the service and without decorating
\* the Fastify instance, when defaultKeyId is not a key of secrets, when
\* tokenTypes is empty or when a token type lacks headerName or expiresIn; hence
\* every service registerJWT returns has defaultKeyId in secrets, at least one
\* token type, and headerName and expiresIn set on every type.
C17_ConstructionValidation ==
  /\ (Registering /\ InvalidOptions(call.options))
       => ~result.ok /\ result.kind = "ConfigurationError" /\ ~ServiceCreated
  /\ ServiceCreated
       => /\ defaultKeyId \in DOMAIN secrets
          /\ DOMAIN tokenTypes # {}
          /\ \A t \in DOMAIN tokenTypes :
               tokenTypes[t].headerName \notin {Undefined, ""} /\ tokenTypes[t].expiresIn # NoNum

\* what a message must not tell about the token in hand: its issuer, its kid
\* and the name of the header field that does not match
TokenInternals ==
  { token.c.iss, token.h["kid"], HeaderMismatchField(token.h, TypeOfCall.header) } \ {Undefined, ""}

\* C19: with diagnostics mode off the message of every error verifyToken raises
\* is generic: it contains neither the token's issuer value, nor the token's
\* kid, nor the name of the mismatching header field.
C19_GenericMessages ==
  (VerifiedAs(tokenTypes) /\ ~debug /\ ~result.ok)
  => \A i \in 1..Len(result.msg) : result.msg[i] \notin TokenInternals

----------------------------------------------------------------------------
(* Claims about diagnostics mode *)

\* two results agree on everything but the message text
SameOutcome(a, b) ==
  /\ a.ok = b.ok
  /\ a.kind = b.kind
  /\ a.ok => a.payload = b.payload /\ a.token = b.token

\* two requests agree on everything but the message text of the reply
SameResponse(a, b) ==
  /\ a.pc = b.pc
  /\ a.i = b.i
  /\ a.reply.status = b.reply.status
  /\ a.reply.error = b.reply.error
  /\ a.reply.typeName = b.reply.typeName
  /\ a.replies = b.replies
  /\ a.hasPayloads = b.hasPayloads /\ a.jwtPayloads = b.jwtPayloads

\* verifyToken decides alike with diagnostics on and off
SameVerification ==
  (call.op = "verifyToken") =>
    /\ SameOutcome(ServiceVerifyTokenIn(call.typeName, token, now, TRUE),
                   ServiceVerifyTokenIn(call.typeName, token, now, FALSE))
    /\ result = ServiceVerifyTokenIn(call.typeName, token, now, debug)

\* the hook answers the request in hand alike with diagnostics on and off
SameHookResponse ==
  (req.pc = "loop") =>
    SameResponse(LoopBodyIn(req, req.typesToVerify[req.i], TRUE),
                 LoopBodyIn(req, req.typesToVerify[req.i], FALSE))

\* C18: diagnostics mode controls verbosity only: the same verifyToken call,
\* the same extraction and the same request through the hook yield, with
\* diagnostics on and off, the same decision, the same error kind and the
\* same HTTP status.
C18_VerbosityOnly ==
  /\ SameVerification
  /\ SameHookResponse
  /\ (call.op = "extractTokenFromHeader") =>
       SameOutcome(ServiceExtractTokenIn(call.headerValue, call.typeName, TRUE),
                   ServiceExtractTokenIn(call.headerValue, call.typeName, FALSE))

\* C18 as amended: verifyToken and the hook decide alike in both modes;
\* extraction yields the same token in both modes, but where it yields none
\* for a value that is present, it raises an error with diagnostics on and
\* answers absent with diagnostics off.
C18_VerbosityOnlyButExtraction ==
  /\ SameVerification
  /\ SameHookResponse
  /\ (call.op = "extractTokenFromHeader" /\ call.typeName \in DOMAIN tokenTypes) =>
       LET on == ServiceExtractTokenIn(call.headerValue, call.typeName, TRUE)
           off == ServiceExtractTokenIn(call.headerValue, call.typeName, FALSE)
       IN  /\ off.ok
           /\ on.ok => on = off
           /\ ~on.ok => /\ off.token = NoToken
                        /\ call.headerValue.present /\ ~EmptyText(call.headerValue)
           /\ result = IF debug THEN on ELSE off

\* with diagnostics on, a token of a foreign issuer is rejected with the issuer
\* error, worded at length
C18_Witness ==
  /\ VerifiedAs(tokenTypes)
  /\ debug
  /\ result.kind = "IssuerNotAllowed"
  /\ Len(result.msg) > 2
  /\ ServiceVerifyTokenIn(call.typeName, token, now, FALSE).kind = "IssuerNotAllowed"

\* the hook rejected the request because verifyToken failed for the type in turn
VerificationFailed ==
  /\ req.pc = "replied"
  /\ req.reply.typeName \in DOMAIN tokenTypes
  /\ Len(req.verified) = req.i

\* the reason verifyToken gave for the token the request carries for type t
UnderlyingReason(t) ==
  ServiceVerifyToken(t, req.headers[ToLowerCase(tokenTypes[t].headerName)].tok)

\* C20: with diagnostics off the 401 sent for a token that fails verification
\* depends on the type name only, whatever the underlying reason; the reason
\* appears when diagnostics are on.
C20_UniformRejection ==
  VerificationFailed =>
    /\ req.reply.status = 401
    /\ req.reply.error = "Unauthorized"
    /\ ~debug => req.reply.message = <<"Invalid or expired", req.reply.typeName, "token">>
    /\ debug => req.reply.message =
                  <<"Token verification failed for type", req.reply.typeName>>
                  \o UnderlyingReason(req.reply.typeName).msg

\* with diagnostics off, a token whose payload fails the schema is answered
\* like any other failing token
C20_Witness ==
  /\ VerificationFailed
  /\ ~debug
  /\ UnderlyingReason("access").kind = "InvalidPayloadShape"
  /\ req.reply.message = <<"Invalid or expired", "access", "token">>

----------------------------------------------------------------------------
(* Claims about the service as a whole *)

\* C21: every service operation, whether it succeeds or fails, leaves the
\* secrets, the default key id, the token types and the debug flag unchanged
\* and leaves the caller's payload argument unchanged.
C21_OperationsFrame ==
  [][ /\ svars' = svars
      /\ call'.op = "generateToken" => call'.payloadAfter = call'.payload ]_vars

\* generateToken signed a payload, adding claims to the token's copy of it,
\* after other operations had succeeded and failed
C21_Witness ==
  /\ call.op = "generateToken"
  /\ result.ok
  /\ token.c # call.payload
  /\ call.payloadAfter = call.payload
  /\ now > 0

----------------------------------------------------------------------------
(* Claims about concurrent requests *)

\* the hook run to its end from request r
RECURSIVE RunLoop(_)
RunLoop(r) ==
  IF r.pc = "loop" THEN RunLoop(LoopBody(r, r.typesToVerify[r.i])) ELSE r

\* the end of request r when the hook handles it alone
HandledAlone(r) ==
  RunLoop(HookEntry([IdleReq EXCEPT !.pc = "hook", !.url = r.url, !.jwtTypes = r.jwtTypes,
                                   !.headers = r.headers]))

\* the requests in flight
InFlight == {req} \cup SeqToSet(waiting)

\* the payload of the token request r carries for type t
OwnPayload(r, t) ==
  ServiceVerifyToken(t, r.headers[ToLowerCase(tokenTypes[t].headerName)].tok)

\* C22: in every interleaving of the steps of concurrent requests, each
\* request ends as it ends when handled alone, with the same reply and the
\* same outcome map, and no outcome map ever holds a payload verified from
\* another request's headers.
C22_RequestIsolation ==
  \A r \in InFlight :
    /\ r.pc \in {"proceed", "replied"} => r = HandledAlone(r)
    /\ \A t \in DOMAIN r.jwtPayloads :
         OwnPayload(r, t).ok /\ r.jwtPayloads[t] = OwnPayload(r, t).payload

\* a request proceeded with its two payloads while another request, carrying
\* another service token, was suspended in the middle of its loop
C22_Witness ==
  /\ req.pc = "proceed"
  /\ DOMAIN req.jwtPayloads = {"access", "service"}
  /\ waiting # <<>>
  /\ waiting[1].pc = "loop" /\ waiting[1].i = 2
  /\ waiting[1].headers # req.headers
  /\ HandledAlone(waiting[1]).pc = "replied"

----------------------------------------------------------------------------
(* Claims about signing and the first checks of the codec *)

\* C23: every token generateToken returns carries kid = defaultKeyId in its
\* header and is signed with the secret registered under defaultKeyId, whatever
\* header claims the type configures.
C23_DefaultKeySigns ==
  (Generated /\ result.ok) =>
    /\ result.token.h["kid"] = defaultKeyId
    /\ result.token.sig = secrets[defaultKeyId]

\* C24: verifyToken rejects with MalformedToken every token that does not
\* consist of exactly three dot-separated segments or in which the header, the
\* payload or the signature segment is empty.
C24_StructuralCheck ==
  (VerifiedAs(tokenTypes) /\ FailsStructure(token)) => result.kind = "MalformedToken"

\* C25: verifyToken rejects with MalformedToken every token of three non-empty
\* segments whose header segment does not decode to an object: undecodable
\* text, JSON null or a JSON scalar.
C25_HeaderDecode ==
  (VerifiedAs(tokenTypes) /\ ~FailsStructure(token) /\ FailsHeaderDecode(token))
    => result.kind = "MalformedToken"

----------------------------------------------------------------------------
(* Claims about the set-up of the server *)

\* the pairs of a secrets string that are not blank
NonBlankPairs(text) ==
  SelectSeq(Split(text, "|"), LAMBDA pair : \E i \in 1..Len(pair) : pair[i] # " ")

\* the trimmed text before the first '=' of a pair, and the trimmed text after it
KeyText(pair) == Trim(SubSeq(pair, 1, IndexOf(pair, "=") - 1))

SecretText(pair) == Trim(SubSeq(pair, IndexOf(pair, "=") + 1, Len(pair)))

\* the strings the parser has to refuse
MustThrow(text) ==
  LET pairs == NonBlankPairs(text)
  IN  \/ \A i \in 1..Len(text) : text[i] = " "
      \/ pairs = <<>>
      \/ \E i \in 1..Len(pairs) :
           IndexOf(pairs[i], "=") = 0 \/ KeyText(pairs[i]) = <<>> \/ SecretText(pairs[i]) = <<>>
      \/ \E i, j \in 1..Len(pairs) : i # j /\ KeyText(pairs[i]) = KeyText(pairs[j])

\* C26: parseJwtSecrets either throws or returns a non-empty map with exactly
\* one entry per non-blank pair, from the trimmed text before the pair's first
\* '=' to the trimmed text after it; it throws on an empty or blank string, on
\* a non-blank pair without '=', with an empty key id or an empty secret, on a
\* repeated key id and when no pair remains; blank pairs are skipped.
C26_ParseSecrets ==
  (call.op = "parseJwtSecrets") =>
    LET pairs == NonBlankPairs(call.text)
    IN  /\ MustThrow(call.text) => ~result.ok
        /\ result.ok =>
             /\ DOMAIN result.value # {}
             /\ Cardinality(DOMAIN result.value) = Len(pairs)
             /\ DOMAIN result.value = { KeyText(pairs[i]) : i \in 1..Len(pairs) }
             /\ \A i \in 1..Len(pairs) : result.value[KeyText(pairs[i])] = SecretText(pairs[i])

\* two secrets were parsed from a string of two pairs
C26_Witness ==
  /\ call.op = "parseJwtSecrets"
  /\ result.ok
  /\ Cardinality(DOMAIN result.value) = 2
  /\ Len(NonBlankPairs(call.text)) = 2

\* the registration is over: the wrapper returned and the callback has no
\* call of done left to make
Settled == plugin.pc = "returned" /\ plugin.later = <<>>

\* C27: for each registration of a wrapped plugin Fastify's done is invoked
\* exactly once, whether the callback never calls done, calls it before it
\* returns, calls it after it has returned, or calls it more than once.
C27_DoneOnce ==
  /\ Len(plugin.dones) <= 1
  /\ Settled => Len(plugin.dones) = 1

\* the request carries no token
NoTokenSent == \A h \in HeaderNames : req.headers[h] = NoHeaderValue

\* C28: a request for GET /v1/health that carries no token is not rejected by
\* the hook and is answered by the handler with status 200 and message 'ok',
\* whatever the mandatory requiredTypes.
C28_HealthExempt ==
  (req.url = HealthUrl /\ NoTokenSent) =>
    /\ req.pc # "replied"
    /\ req.pc = "handled" => req.reply.status = 200 /\ req.reply.message = <<"ok">>

\* the prefix under which the Swagger routes of a configured application live:
\* the prefix as written, '/docs/' when none is written, with a '/' in front
\* and at the end
NormalisedPrefix(routePrefix) ==
  LET given == IF routePrefix = <<>> THEN <<"/", "docs", "/">> ELSE routePrefix
  IN  (IF Head(given) = "/" THEN <<>> ELSE <<"/">>) \o given
      \o (IF given[Len(given)] = "/" THEN <<>> ELSE <<"/">>)

\* the hook let the request through without a token check and without an
\* outcome map
PassedUnchecked ==
  /\ req.pc = "proceed"
  /\ req.reads = <<>> /\ req.verified = <<>>
  /\ ~req.hasPayloads /\ DOMAIN req.jwtPayloads = {}
  /\ req.replies = 0

----------------------------------------------------------------------------
(* Claims about tokens and types *)

\* the token in hand was generated under one type and is verified as another
CrossVerified ==
  /\ VerifiedAs(tokenTypes)
  /\ token # NoToken /\ token = issued.token
  /\ issued.typeName # call.typeName

\* the verifying type accepts the token: its key is known, its signature and
\* expiry hold, and the type's header claims, allowed issuers and schema
\* accept it
AcceptedAs(tok, cfg) ==
  /\ ~FailsSecretLookup(tok)
  /\ ~FailsSignatureOrExpiry(tok)
  /\ ~FailsHeaderClaims(tok, cfg.header)
  /\ ~FailsIssuer(tok, cfg.allowedIss)
  /\ cfg.payloadSchema # Undefined => SatisfiesSchema(tok.c, cfg.payloadSchema)

\* C30: verifying as type t2 a token generated under type t1 depends on the
\* token's kid, signature and expiry and on t2's header claims, allowed
\* issuers and schema only: the token is accepted exactly when these accept
\* it, whatever algorithm and audience t2 configures, and the token itself is
\* made from t1's configuration, not from its name.
C30_TokensNotTypeBound ==
  CrossVerified =>
    /\ result.ok <=> AcceptedAs(token, TypeOfCall)
    /\ \A alg \in {Undefined} \cup HsAlgs, aud \in {Undefined, "web", "api"} :
         VerifyWithConfig([TypeOfCall EXCEPT !.algorithm = alg, !.aud = aud], token, now, debug)
           = result
    /\ LET made == tokenTypes[issued.typeName]
       IN  token = signToken(issued.payload, secrets[issued.defaultKeyId], issued.defaultKeyId,
                             made.expiresIn,
                             [algorithm |-> made.algorithm, iss |-> made.iss,
                              aud |-> made.aud, header |-> made.header],
                             issued.at).token

\* an access token signed with the default algorithm and without audience is
\* accepted as a service token, a type that configures HS384, an audience, a
\* header claim, allowed issuers and a schema
C30_Witness ==
  /\ CrossVerified
  /\ call.typeName = "service"
  /\ result.ok
  /\ token.h["alg"] = "HS256" /\ TypeOfCall.algorithm = "HS384"
  /\ token.c.aud = Undefined /\ TypeOfCall.aud = "web"
  /\ TypeOfCall.header # NoHeader
  /\ TypeOfCall.allowedIss # NoList
  /\ TypeOfCall.payloadSchema # Undefined

====
